---- MODULE Spec2Model ----
(***************************************************************************)
(* A model of the L2C migration core of polaris-local-forge:               *)
(*   l2c/sync.py     diff-based sync engine and the sync command           *)
(*   l2c/rewrite.py  Iceberg metadata path rewriter                        *)
(*   l2c/common.py   state file load/save                                  *)
(*   l2c/sessions.py destination handle construction                       *)
(*                                                                         *)
(* Strings are sequences of tokens; object keys are naturals ordered as    *)
(* Python orders the key strings.                                          *)
(***************************************************************************)
EXTENDS Integers, Sequences, FiniteSets, TLC

VARIABLES
    mode,       \* which part of the program this behaviour exercises
    p_src,      \* planTransfer: source listing, a dict in iteration order
    p_dst,      \* planTransfer: destination listing, a dict (only looked up)
    p_force,    \* planTransfer: force flag
    p_plan,     \* planTransfer: the returned list
    p_pc,       \* planTransfer: "init" | "done"
    t_env,      \* transferObject: what each successive attempt meets
    t_size,     \* transferObject: ContentLength of the source object
    t_res,      \* transferObject: the call's result record
    t_pc,       \* transferObject: "init" | "done"
    src,        \* source bucket: object key -> content (never written)
    dst,        \* destination bucket: object key -> content
    faults,     \* how many more failures the environment may inject
    r_pc,       \* rewrite_table_paths: position
    r_tbl,      \* rewrite_table_paths: the table (index) being rewritten
    r_meta,     \* rewrite_table_paths: metadata, rewritten in memory
    r_ml,       \* rewrite_table_paths: manifest-list URIs still to visit
    r_m,        \* rewrite_table_paths: manifest URIs still to visit
    r_count,    \* rewrite_table_paths: rewritten_count
    r_before,   \* history: the destination bucket when the call began
    r_skipped,  \* history: keys whose read failed in this call
    r_written,  \* history: keys put by this call, in order
    tables,     \* sync: the tables discovery returns, [namespace, table]
    persisted,  \* the state file l2c-state.json: [aws, tables]
    state,      \* sync: the state dict of the running command
    s_pc,       \* sync: position of the command
    s_end,      \* sync: how the last run ended (summary, exception, ...)
    s_flags,    \* sync: [force, dry_run, skip_rewrite]
    s_actionable, \* sync: indexes (into tables) of the tables to process
    s_i,        \* sync: position in s_actionable
    s_plan,     \* _sync_table: keys of to_transfer not yet transferred
    s_transferred, \* _sync_table: transferred
    s_total_bytes, \* _sync_table: total_bytes
    s_result,   \* sync: result of _sync_table for the current table
    s_synced,   \* sync: synced_count
    s_failed,   \* sync: failed_count
    g_start,    \* history: state file and both buckets when the run began
    g_log,      \* history: the tables this run has finished, in order
    g_prev,     \* history: state key -> keys left when its transfer failed
    g_cur,      \* history: the current table: keys expected and transferred
    g_crash,    \* history: the table an interruption hit, and g_log then
    g_ops,      \* history: tables a store operation was issued for (this run)
    g_calls,    \* history: <<table, call>> for the calls issued (this run)
    e_pc,       \* a command that builds cloud sessions: position
    e_cmd,      \* the command
    e_blocks,   \* the blocks of the command still to run
    e_left,     \* create_cloud_session calls left in the current block
    e_environ,  \* os.environ: the names of the variables that are set
    e_saved,    \* scrubbed_aws_env: saved
    e_last,     \* history: the last create_cloud_session call
    k_pc,       \* recording two tables: position
    k_tables,   \* recording two tables: the two discovered tables
    k_state,    \* recording two tables: tables_state
    k_sf,       \* recording two tables: Snowflake name -> the table created
    x_pc,       \* register: position of the command
    x_flags,    \* register: [dry_run, yes]
    x_reg,      \* register: registerable, the state keys still to visit
    x_registered, \* register: registered
    x_failed,   \* register: failed
    x_start,    \* history: the state file when the command began
    x_done,     \* history: the tables this run has visited, in order
    f_pc,       \* save_state: position
    f_exists,   \* the state file exists on disk
    f_text,     \* the state file: the text it holds
    f_mode,     \* the state file: its permission bits, three octal digits
    f_umask,    \* the process's umask, three octal digits
    f_old,      \* history: the state the file held before this save
    f_new,      \* save_state: the state being saved
    c_pc,       \* concurrent sync runs: the position of each run
    c_state,    \* concurrent sync runs: the state dict of each run
    c_todo,     \* concurrent sync runs: the tables each run has still to do
    c_log,      \* history: the outcomes each run has saved, in order
    d_pc,       \* sync discovery: position
    d_catalog,  \* the local catalog: namespace -> its tables
    d_bad,      \* the catalog calls that fail: [namespaces, listing, loading]
    d_ns,       \* _discover_tables: namespaces still to walk
    d_idents,   \* _discover_tables: tables of the namespace still to load
    d_results,  \* _discover_tables: results
    d_actionable,\* sync: actionable
    d_noted,    \* sync: the tables named in the warning
    q_pc,       \* _replace_prefix applied twice: position
    q_value,    \* _replace_prefix: value
    q_src,      \* _replace_prefix: src
    q_dst,      \* _replace_prefix: dst
    q_once,     \* the result of the first application
    q_twice,    \* the result of the second application
    rr_run,     \* rewrite_table_paths called again: 1 in the second call
    rr_init,    \* history: the destination bucket before the first call
    rr_faults,  \* history: the failures left when the second call began
    o_pc,       \* clear and cleanup: position of the command
    o_cmd,      \* clear and cleanup: the command
    o_flags,    \* clear and cleanup: [dry_run, force]
    o_todo,     \* _clear_s3_objects: the recorded tables still to visit
    o_start,    \* history: state file and destination when the command began
    w_pc,       \* one file of the rewrite: position
    w_key,      \* one file of the rewrite: which of the three kinds of file
    w_in,       \* one file of the rewrite: the object as it was read
    w_out       \* one file of the rewrite: the object as it was written back

planVars == <<p_src, p_dst, p_force, p_plan, p_pc>>
xferVars == <<t_env, t_size, t_res, t_pc>>
storeVars == <<src, dst, faults>>
rwVars == <<r_pc, r_tbl, r_meta, r_ml, r_m, r_count, r_before, r_skipped,
            r_written>>
syncVars == <<tables, persisted, state, s_pc, s_end, s_flags, s_actionable,
              s_i, s_plan, s_transferred, s_total_bytes, s_result, s_synced,
              s_failed>>
ghostVars == <<g_start, g_log, g_prev, g_cur, g_crash, g_ops, g_calls>>
envVars == <<e_pc, e_cmd, e_blocks, e_left, e_environ, e_saved, e_last>>
keyVars == <<k_pc, k_tables, k_state, k_sf>>
regVars == <<x_pc, x_flags, x_reg, x_registered, x_failed, x_start, x_done>>
fileVars == <<f_pc, f_exists, f_text, f_mode, f_umask, f_old, f_new>>
concVars == <<c_pc, c_state, c_todo, c_log>>
discVars == <<d_pc, d_catalog, d_bad, d_ns, d_idents, d_results,
    d_actionable, d_noted>>
prefVars == <<q_pc, q_value, q_src, q_dst, q_once, q_twice>>
rerunVars == <<rr_run, rr_init, rr_faults>>
orchVars == <<o_pc, o_cmd, o_flags, o_todo, o_start>>
docVars == <<w_pc, w_key, w_in, w_out>>
auxVars == <<envVars, keyVars, regVars, fileVars, concVars, discVars,
    prefVars, rerunVars, orchVars, docVars>>
envRest == <<keyVars, regVars, fileVars, concVars, discVars, prefVars,
    rerunVars, orchVars, docVars>>
keyRest == <<envVars, regVars, fileVars, concVars, discVars, prefVars,
    rerunVars, orchVars, docVars>>
regRest == <<envVars, keyVars, fileVars, concVars, discVars, prefVars,
    rerunVars, orchVars, docVars>>
fileRest == <<envVars, keyVars, regVars, concVars, discVars, prefVars,
    rerunVars, orchVars, docVars>>
concRest == <<envVars, keyVars, regVars, fileVars, discVars, prefVars,
    rerunVars, orchVars, docVars>>
discRest == <<envVars, keyVars, regVars, fileVars, concVars, prefVars,
    rerunVars, orchVars, docVars>>
prefRest == <<envVars, keyVars, regVars, fileVars, concVars, discVars,
    rerunVars, orchVars, docVars>>
rerunRest == <<envVars, keyVars, regVars, fileVars, concVars, discVars,
    prefVars, orchVars, docVars>>
orchRest == <<envVars, keyVars, regVars, fileVars, concVars, discVars,
    prefVars, rerunVars, docVars>>
docRest == <<envVars, keyVars, regVars, fileVars, concVars, discVars,
    prefVars, rerunVars, orchVars>>
vars == <<mode, planVars, xferVars, storeVars, rwVars, syncVars, ghostVars,
          auxVars>>

EnvIdle ==
    /\ e_pc = "off" /\ e_cmd = "" /\ e_blocks = <<>> /\ e_left = 0
    /\ e_environ = {} /\ e_saved = {} /\ e_last = <<>>

KeyIdle == k_pc = "off" /\ k_tables = <<>> /\ k_state = <<>> /\ k_sf = <<>>

RegIdle ==
    /\ x_pc = "off" /\ x_flags = <<>> /\ x_reg = <<>> /\ x_registered = 0
    /\ x_failed = 0 /\ x_start = <<>> /\ x_done = <<>>

FileIdle ==
    /\ f_pc = "off" /\ f_exists = FALSE /\ f_text = <<>> /\ f_mode = <<>>
    /\ f_umask = <<>> /\ f_old = <<>> /\ f_new = <<>>

ConcIdle == c_pc = <<>> /\ c_state = <<>> /\ c_todo = <<>> /\ c_log = <<>>

DiscIdle ==
    /\ d_pc = "off" /\ d_catalog = <<>> /\ d_bad = <<>> /\ d_ns = <<>>
    /\ d_idents = <<>> /\ d_results = <<>> /\ d_actionable = <<>>
    /\ d_noted = {}

PrefIdle ==
    /\ q_pc = "off" /\ q_value = <<>> /\ q_src = <<>> /\ q_dst = <<>>
    /\ q_once = <<>> /\ q_twice = <<>>

RerunIdle ==
    rr_run = 0 /\ rr_init = <<>> /\ rr_faults = 0

OrchIdle ==
    /\ o_pc = "off" /\ o_cmd = "" /\ o_flags = <<>> /\ o_todo = <<>>
    /\ o_start = <<>>

DocIdle ==
    /\ w_pc = "off" /\ w_key = "" /\ w_in = <<>> /\ w_out = <<>>

AuxIdle == EnvIdle /\ KeyIdle /\ RegIdle /\ FileIdle /\ ConcIdle /\
    DiscIdle /\ PrefIdle /\ RerunIdle /\ OrchIdle /\ DocIdle
EnvRestIdle == KeyIdle /\ RegIdle /\ FileIdle /\ ConcIdle /\ DiscIdle /\
    PrefIdle /\ RerunIdle /\ OrchIdle /\ DocIdle
KeyRestIdle == EnvIdle /\ RegIdle /\ FileIdle /\ ConcIdle /\ DiscIdle /\
    PrefIdle /\ RerunIdle /\ OrchIdle /\ DocIdle
RegRestIdle == EnvIdle /\ KeyIdle /\ FileIdle /\ ConcIdle /\ DiscIdle /\
    PrefIdle /\ RerunIdle /\ OrchIdle /\ DocIdle
FileRestIdle == EnvIdle /\ KeyIdle /\ RegIdle /\ ConcIdle /\ DiscIdle /\
    PrefIdle /\ RerunIdle /\ OrchIdle /\ DocIdle
ConcRestIdle == EnvIdle /\ KeyIdle /\ RegIdle /\ FileIdle /\ DiscIdle /\
    PrefIdle /\ RerunIdle /\ OrchIdle /\ DocIdle
DiscRestIdle == EnvIdle /\ KeyIdle /\ RegIdle /\ FileIdle /\ ConcIdle /\
    PrefIdle /\ RerunIdle /\ OrchIdle /\ DocIdle
PrefRestIdle == EnvIdle /\ KeyIdle /\ RegIdle /\ FileIdle /\ ConcIdle /\
    DiscIdle /\ RerunIdle /\ OrchIdle /\ DocIdle
RerunRestIdle == EnvIdle /\ KeyIdle /\ RegIdle /\ FileIdle /\ ConcIdle /\
    DiscIdle /\ PrefIdle /\ OrchIdle /\ DocIdle
OrchRestIdle == EnvIdle /\ KeyIdle /\ RegIdle /\ FileIdle /\ ConcIdle /\
    DiscIdle /\ PrefIdle /\ RerunIdle /\ DocIdle
DocRestIdle == EnvIdle /\ KeyIdle /\ RegIdle /\ FileIdle /\ ConcIdle /\
    DiscIdle /\ PrefIdle /\ RerunIdle /\ OrchIdle

-----------------------------------------------------------------------------
(* Bounds *)

\* object keys under one table prefix are 1..MaxKey
MaxKey == 3
\* number of attempts for which the environment's behaviour is drawn
EnvLen == 4

\* manifest lists (snapshots) of the table rewritten in SpecRewrite
NLists == 2
\* failures the environment may inject in one behaviour
MaxFaults == 1
\* tables discovery returns in SpecSync
NTables == 3

\* object sizes (bytes); two values are enough to tell equal from different
Sizes == {1, 2}

Keys == 1..MaxKey

-----------------------------------------------------------------------------
(* Generic helpers *)

Range(s) == {s[i] : i \in DOMAIN s}

RECURSIVE SumSeq(_)
SumSeq(s) == IF s = <<>> THEN 0 ELSE Head(s) + SumSeq(Tail(s))

RECURSIVE Pow2(_)
Pow2(n) == IF n = 0 THEN 1 ELSE 2 * Pow2(n - 1)

\* all sequences over S of length exactly n
RECURSIVE SeqsOfLen(_, _)
SeqsOfLen(S, n) ==
    IF n = 0 THEN {<<>>}
    ELSE {Append(s, x) : s \in SeqsOfLen(S, n - 1), x \in S}

\* a dict in iteration order: a sequence of <<key, size>> with distinct keys
IsDict(s) == \A i, j \in DOMAIN s : i # j => s[i][1] # s[j][1]

RECURSIVE DictsOfLen(_)
DictsOfLen(n) ==
    IF n = 0 THEN {<<>>}
    ELSE {Append(s, <<k, z>>) :
            s \in DictsOfLen(n - 1), k \in Keys, z \in Sizes}

Dicts == {s \in UNION {DictsOfLen(n) : n \in 0..MaxKey} : IsDict(s)}

DictKeys(d) == {d[i][1] : i \in DOMAIN d}
DictGet(d, k) == (CHOOSE i \in DOMAIN d : d[i][1] = k)
DictSize(d, k) == d[DictGet(d, k)][2]

\* destination listings are only looked up, never iterated: maps key -> size
Maps == UNION {[K -> Sizes] : K \in SUBSET Keys}

-----------------------------------------------------------------------------
(* sync.py: _compute_transfer_plan *)

\* sorted(): insertion of each element of the iterable into an ordered list
RECURSIVE InsertSorted(_, _)
InsertSorted(x, s) ==
    IF s = <<>> THEN <<x>>
    ELSE IF x <= Head(s) THEN <<x>> \o s
    ELSE <<Head(s)>> \o InsertSorted(x, Tail(s))

\* mutant: the list is returned in iteration order
sorted_unsorted(s) == s

RECURSIVE sorted(_)
sorted(s) == IF s = <<>> THEN <<>> ELSE InsertSorted(Head(s), sorted(Tail(s)))

\* the generator of lines 108-109, in the iteration order of src_objects
RECURSIVE NewOrChanged(_, _)
NewOrChanged(src_objects, dst_objects) ==
    IF src_objects = <<>> THEN <<>>
    ELSE LET k == Head(src_objects)[1]
             size == Head(src_objects)[2]
             rest == NewOrChanged(Tail(src_objects), dst_objects)
         IN  IF k \notin DOMAIN dst_objects \/ dst_objects[k] # size
             THEN <<k>> \o rest
             ELSE rest

\* src_objects.keys(), in iteration order
KeysInOrder(src_objects) == [i \in DOMAIN src_objects |-> src_objects[i][1]]

\* mutant: the destination listing is ignored
compute_transfer_plan_all(src_objects, dst_objects, force) ==
    sorted(KeysInOrder(src_objects))

compute_transfer_plan(src_objects, dst_objects, force) ==
    IF force
    THEN sorted(KeysInOrder(src_objects))
    ELSE sorted(NewOrChanged(src_objects, dst_objects))

-----------------------------------------------------------------------------
(* sync.py: _transfer_object *)

MAX_RETRIES == 3
BASE_DELAY == 1

\* the exception classes caught at line 86
Transient == {"ClientError", "EndpointConnectionError", "ConnectionError"}
\* what one attempt (get_object + upload_fileobj) can meet
Outcomes == {"ok", "Other"} \cup Transient

\* mutant: the loop gives up one failure too late and never stops sleeping
RECURSIVE TransferLoopLate(_, _, _, _)
TransferLoopLate(env, size, attempt, delays) ==
    IF attempt >= MAX_RETRIES + 1
    THEN [status |-> "returned", bytes |-> 0, attempts |-> attempt,
          delays |-> delays, error |-> <<>>]
    ELSE LET o == env[attempt + 1] IN
         IF o = "ok"
         THEN [status |-> "returned", bytes |-> size, attempts |-> attempt + 1,
               delays |-> delays, error |-> <<>>]
         ELSE IF o \in Transient /\ attempt # MAX_RETRIES
         THEN TransferLoopLate(env, size, attempt + 1,
                               Append(delays, BASE_DELAY * Pow2(attempt)))
         ELSE [status |-> "raised", bytes |-> 0, attempts |-> attempt + 1,
               delays |-> delays, error |-> <<o, attempt + 1>>]

\* the for loop of lines 79-92; env[a + 1] is what attempt a meets
RECURSIVE TransferLoop(_, _, _, _)
TransferLoop(env, size, attempt, delays) ==
    IF attempt >= MAX_RETRIES
    THEN [status |-> "returned", bytes |-> 0, attempts |-> attempt,
          delays |-> delays, error |-> <<>>]
    ELSE LET o == env[attempt + 1] IN
         IF o = "ok"
         THEN [status |-> "returned", bytes |-> size, attempts |-> attempt + 1,
               delays |-> delays, error |-> <<>>]
         ELSE IF o \in Transient /\ attempt # MAX_RETRIES - 1
         THEN TransferLoop(env, size, attempt + 1,
                           Append(delays, BASE_DELAY * Pow2(attempt)))
         ELSE [status |-> "raised", bytes |-> 0, attempts |-> attempt + 1,
               delays |-> delays, error |-> <<o, attempt + 1>>]

transfer_object(env, size) == TransferLoop(env, size, 0, <<>>)


-----------------------------------------------------------------------------
(* Strings, URIs and object contents                                       *)
(*                                                                         *)
(* A URI "scheme://bucket/key" is the token sequence <<scheme, bucket,     *)
(* key>>; the prefix "s3://bucket/" is <<"s3://", bucket>>.  An object key *)
(* is <<table index, n>>.  A missing or empty field is <<>>.               *)

SrcBucket == "polardb"
DstBucket == "cloud-polardb"
OtherBucket == "elsewhere"

StartsWith(value, prefix) ==
    /\ Len(value) >= Len(prefix)
    /\ SubSeq(value, 1, Len(prefix)) = prefix

\* mutant: the value is returned as it was, also under the source prefix
replace_prefix_keep(value, src_, dst_) == value

\* mutant: the test value.startswith(src) is missing
replace_prefix_unchecked(value, src_, dst_) ==
    dst_ \o SubSeq(value, Len(src_) + 1, Len(value))

\* mutant: the rest of the value is dropped
replace_prefix_no_rest(value, src_, dst_) ==
    IF value # <<>> /\ StartsWith(value, src_) THEN dst_ ELSE value

\* rewrite.py: _replace_prefix
replace_prefix(value, src_, dst_) ==
    IF value # <<>> /\ StartsWith(value, src_)
    THEN dst_ \o SubSeq(value, Len(src_) + 1, Len(value))
    ELSE value

\* rewrite.py: _key_from_uri
key_from_uri(uri, bucket) ==
    LET prefix == <<"s3://", bucket>>
        alt_prefix == <<"s3a://", bucket>>
    IN  IF StartsWith(uri, prefix)
        THEN SubSeq(uri, Len(prefix) + 1, Len(uri))
        ELSE IF StartsWith(uri, alt_prefix)
        THEN SubSeq(uri, Len(alt_prefix) + 1, Len(uri))
        ELSE uri

\* sync.py lines 362-363
source_prefix == <<"s3://", SrcBucket>>
target_prefix == <<"s3://", DstBucket>>

\* rewrite.py: _rewrite_metadata_json
rewrite_metadata_json(data, src_, dst_) ==
    [data EXCEPT
        !.location = replace_prefix(@, src_, dst_),
        !.snapshots = [i \in DOMAIN @ |->
                          IF @[i] # <<>> THEN replace_prefix(@[i], src_, dst_)
                          ELSE @[i]],
        !.log = [i \in DOMAIN @ |-> replace_prefix(@[i], src_, dst_)]]

\* rewrite.py: _rewrite_manifest_list
rewrite_manifest_list(records, src_, dst_) ==
    [i \in DOMAIN records |-> replace_prefix(records[i], src_, dst_)]

\* mutant: only the referenced data file of an entry is rewritten
rewrite_manifest_referenced_only(records, src_, dst_) ==
    [i \in DOMAIN records |->
        [file_path |-> records[i].file_path,
         referenced |->
            IF records[i].referenced # <<>>
            THEN replace_prefix(records[i].referenced, src_, dst_)
            ELSE records[i].referenced]]

\* rewrite.py: _rewrite_manifest
rewrite_manifest(records, src_, dst_) ==
    [i \in DOMAIN records |->
        [file_path |-> replace_prefix(records[i].file_path, src_, dst_),
         referenced |->
            IF records[i].referenced # <<>>
            THEN replace_prefix(records[i].referenced, src_, dst_)
            ELSE records[i].referenced]]

\* the URI-valued fields of an object that the rewriter handles, in order
RECURSIVE FileUris(_)
FileUris(files) ==
    IF files = <<>> THEN <<>>
    ELSE <<Head(files).file_path, Head(files).referenced>> \o FileUris(Tail(files))

HandledUris(c) ==
    IF c.kind = "metadata" THEN <<c.location>> \o c.snapshots \o c.log
    ELSE IF c.kind = "mlist" THEN c.paths
    ELSE IF c.kind = "manifest" THEN FileUris(c.files)
    ELSE <<>>

\* an object of the store exists under a key string iff that string is one key
Exists(store, keystr) == Len(keystr) = 1 /\ keystr[1] \in DOMAIN store

\* fastavro.reader accepts the object
IsAvro(c) == c.kind \in {"mlist", "manifest"}

\* the records _s3_get_avro returns, and the object written back from records
AvroRecords(c) == IF c.kind = "mlist" THEN c.paths ELSE c.files
AvroObject(c, records) ==
    IF c.kind = "mlist" THEN [c EXCEPT !.paths = records]
    ELSE [c EXCEPT !.files = records]

\* mutant: the bucket is emptied before the object is put
PutAlone(store, k, c) == [x \in {k} |-> c]

\* put_object: the store with key k holding content c
Put(store, k, c) == [x \in DOMAIN store \cup {k} |-> IF x = k THEN c ELSE store[x]]

-----------------------------------------------------------------------------
(* The Iceberg tree of one table, as the writer left it in the source bucket *)

SrcUri(k) == <<"s3://", SrcBucket, k>>

MetaKey(t) == <<t, 1>>
ListKey(t, i) == <<t, 1 + i>>
SharedManifestKey(t, nl) == <<t, nl + 2>>
OwnManifestKey(t, nl, i) == <<t, nl + 2 + i>>
DataKey(t, nl) == <<t, 2 * nl + 3>>

\* how the odd snapshot names its manifest list
Styles == {"s3a", "other", "nofield"}

StyledUri(style, k) ==
    IF style = "s3a" THEN <<"s3a://", DstBucket, k>>
    ELSE IF style = "other" THEN <<"s3://", OtherBucket, k>>
    ELSE <<>>

\* shape.odd: the snapshot (0: none) whose manifest-list URI is not under the
\* source prefix; shape.share: every manifest list also lists one shared manifest
Shapes(nl) == [odd : 0..nl, style : Styles, share : BOOLEAN]

ManifestContent(t, nl) ==
    [kind |-> "manifest",
     files |-> << [file_path |-> SrcUri(DataKey(t, nl)), referenced |-> <<>>],
                  [file_path |-> <<"s3://", OtherBucket, DataKey(t, nl)>>,
                   referenced |-> SrcUri(DataKey(t, nl))] >>]

Tree(t, nl, shape) ==
    LET keys == {<<t, n>> : n \in 1..(2 * nl + 3)}
    IN  [k \in keys |->
          IF k = MetaKey(t)
          THEN [kind |-> "metadata",
                location |-> SrcUri(<<t, 0>>),
                snapshots |-> [i \in 1..nl |->
                                 IF i = shape.odd
                                 THEN StyledUri(shape.style, ListKey(t, i))
                                 ELSE SrcUri(ListKey(t, i))],
                log |-> <<SrcUri(<<t, 0>>)>>]
          ELSE IF k[2] <= nl + 1
          THEN [kind |-> "mlist",
                paths |-> (IF shape.share
                           THEN <<SrcUri(SharedManifestKey(t, nl))>>
                           ELSE <<>>)
                          \o <<SrcUri(OwnManifestKey(t, nl, k[2] - 1))>>]
          ELSE IF k = DataKey(t, nl)
          THEN [kind |-> "data"]
          ELSE ManifestContent(t, nl)]

\* find_latest_metadata: the key of the table's metadata.json at the
\* destination, <<>> when there is none
find_latest_metadata(store, t) ==
    IF MetaKey(t) \in DOMAIN store THEN <<MetaKey(t)>> ELSE <<>>

-----------------------------------------------------------------------------
(* rewrite.py: rewrite_table_paths, one action per file it visits *)

RwIdle ==
    /\ r_pc = "off" /\ r_tbl = 0 /\ r_meta = <<>> /\ r_ml = <<>> /\ r_m = <<>>
    /\ r_count = 0 /\ r_before = <<>> /\ r_skipped = {} /\ r_written = <<>>

\* mutant: metadata.json is written before the manifest lists are visited
LoopPcMetaFirst(ml, m) == "putmeta"

\* mutant: the manifest lists left are not visited
LoopPcNoSiblings(ml, m) == IF m # <<>> THEN "manifests" ELSE "putmeta"

\* where the nested loops of lines 195-223 stand
LoopPc(ml, m) ==
    IF m # <<>> THEN "manifests" ELSE IF ml # <<>> THEN "lists" ELSE "putmeta"

\* lines 175-181: no metadata.json under the table's prefix
RwNoMetadata ==
    /\ r_pc = "find"
    /\ find_latest_metadata(dst, r_tbl) = <<>>
    /\ r_pc' = "returned"
    /\ r_count' = 0
    /\ UNCHANGED <<auxVars, mode, planVars, xferVars, syncVars, ghostVars, storeVars,
                   r_tbl, r_meta, r_ml, r_m, r_before, r_skipped, r_written>>

\* line 184 raises: metadata.json cannot be read or parsed
RwGetMetaFail ==
    /\ r_pc = "find"
    /\ find_latest_metadata(dst, r_tbl) # <<>>
    /\ faults > 0
    /\ faults' = faults - 1
    /\ r_pc' = "raised"
    /\ UNCHANGED <<auxVars, mode, planVars, xferVars, syncVars, ghostVars, src, dst,
                   r_tbl, r_meta, r_ml, r_m, r_count, r_before, r_skipped,
                   r_written>>

\* lines 184-193: read metadata.json, collect the manifest-list URIs, rewrite
\* the document in memory
RwGetMeta ==
    /\ r_pc = "find"
    /\ find_latest_metadata(dst, r_tbl) # <<>>
    /\ LET metadata == dst[MetaKey(r_tbl)]
           manifest_list_uris == SelectSeq(metadata.snapshots,
                                           LAMBDA u : u # <<>>)
       IN  /\ r_count' = 1
           /\ r_ml' = manifest_list_uris
           /\ r_m' = <<>>
           /\ r_meta' = rewrite_metadata_json(metadata, source_prefix,
                                              target_prefix)
           /\ r_pc' = LoopPc(manifest_list_uris, <<>>)
    /\ UNCHANGED <<auxVars, mode, planVars, xferVars, syncVars, ghostVars, storeVars,
                   r_tbl, r_before, r_skipped, r_written>>

\* mutant: the key is taken from the URI as metadata.json has it
ml_key_unreplaced == key_from_uri(Head(r_ml), DstBucket)

ml_key == key_from_uri(replace_prefix(Head(r_ml), source_prefix, target_prefix),
                       DstBucket)
m_key == key_from_uri(replace_prefix(Head(r_m), source_prefix, target_prefix),
                      DstBucket)

Readable(keystr) == Exists(dst, keystr) /\ IsAvro(dst[keystr[1]])

\* lines 199-203: the manifest list cannot be read; warn and continue
RwListSkip ==
    /\ r_pc = "lists"
    /\ \/ ~Readable(ml_key) /\ UNCHANGED faults
       \/ faults > 0 /\ faults' = faults - 1
    /\ r_skipped' = r_skipped \cup {ml_key}
    /\ r_ml' = Tail(r_ml)
    /\ r_pc' = LoopPc(Tail(r_ml), <<>>)
    /\ UNCHANGED <<auxVars, mode, planVars, xferVars, syncVars, ghostVars, src, dst,
                   r_tbl, r_meta, r_m, r_count, r_before, r_written>>

\* lines 200-209: read the manifest list, collect its manifest URIs, rewrite
\* and write it back
RwList ==
    /\ r_pc = "lists"
    /\ Readable(ml_key)
    /\ LET obj == dst[ml_key[1]]
           records == AvroRecords(obj)
           manifest_uris == IF obj.kind = "mlist" THEN records ELSE <<>>
           rewritten == IF obj.kind = "mlist"
                        THEN rewrite_manifest_list(records, source_prefix,
                                                   target_prefix)
                        ELSE records
       IN  /\ dst' = Put(dst, ml_key[1], AvroObject(obj, rewritten))
           /\ r_m' = manifest_uris
           /\ r_ml' = Tail(r_ml)
           /\ r_pc' = LoopPc(Tail(r_ml), manifest_uris)
    /\ r_written' = Append(r_written, ml_key[1])
    /\ r_count' = r_count + 1
    /\ UNCHANGED <<auxVars, mode, planVars, xferVars, syncVars, ghostVars, src, faults,
                   r_tbl, r_meta, r_before, r_skipped>>

\* mutant: a manifest list that cannot be written is passed over
RwListPutFailContinues ==
    /\ r_pc = "lists"
    /\ Readable(ml_key)
    /\ faults > 0
    /\ faults' = faults - 1
    /\ r_ml' = Tail(r_ml)
    /\ r_pc' = LoopPc(Tail(r_ml), <<>>)
    /\ UNCHANGED <<auxVars, mode, planVars, xferVars, syncVars, ghostVars, src, dst,
                   r_tbl, r_meta, r_m, r_count, r_before, r_skipped,
                   r_written>>

\* line 208 raises: the rewritten manifest list cannot be written
RwListPutFail ==
    /\ r_pc = "lists"
    /\ Readable(ml_key)
    /\ faults > 0
    /\ faults' = faults - 1
    /\ r_pc' = "raised"
    /\ UNCHANGED <<auxVars, mode, planVars, xferVars, syncVars, ghostVars, src, dst,
                   r_tbl, r_meta, r_ml, r_m, r_count, r_before, r_skipped,
                   r_written>>

\* lines 215-219: the manifest cannot be read; warn and continue
RwManifestSkip ==
    /\ r_pc = "manifests"
    /\ \/ ~Readable(m_key) /\ UNCHANGED faults
       \/ faults > 0 /\ faults' = faults - 1
    /\ r_skipped' = r_skipped \cup {m_key}
    /\ r_m' = Tail(r_m)
    /\ r_pc' = LoopPc(r_ml, Tail(r_m))
    /\ UNCHANGED <<auxVars, mode, planVars, xferVars, syncVars, ghostVars, src, dst,
                   r_tbl, r_meta, r_ml, r_count, r_before, r_written>>

\* lines 216-223: read the manifest, rewrite and write it back
RwManifest ==
    /\ r_pc = "manifests"
    /\ Readable(m_key)
    /\ LET obj == dst[m_key[1]]
           records == AvroRecords(obj)
           rewritten == IF obj.kind = "manifest"
                        THEN rewrite_manifest(records, source_prefix,
                                              target_prefix)
                        ELSE records
       IN  dst' = Put(dst, m_key[1], AvroObject(obj, rewritten))
    /\ r_m' = Tail(r_m)
    /\ r_pc' = LoopPc(r_ml, Tail(r_m))
    /\ r_written' = Append(r_written, m_key[1])
    /\ r_count' = r_count + 1
    /\ UNCHANGED <<auxVars, mode, planVars, xferVars, syncVars, ghostVars, src, faults,
                   r_tbl, r_meta, r_ml, r_before, r_skipped>>

\* line 222 raises: the rewritten manifest cannot be written
RwManifestPutFail ==
    /\ r_pc = "manifests"
    /\ Readable(m_key)
    /\ faults > 0
    /\ faults' = faults - 1
    /\ r_pc' = "raised"
    /\ UNCHANGED <<auxVars, mode, planVars, xferVars, syncVars, ghostVars, src, dst,
                   r_tbl, r_meta, r_ml, r_m, r_count, r_before, r_skipped,
                   r_written>>

\* mutant: metadata.json is written to the source bucket
RwPutMetaToSource ==
    /\ r_pc = "putmeta"
    /\ src' = Put(src, MetaKey(r_tbl), r_meta)
    /\ r_written' = Append(r_written, MetaKey(r_tbl))
    /\ r_pc' = "returned"
    /\ UNCHANGED <<auxVars, mode, planVars, xferVars, syncVars, ghostVars, dst, faults,
                   r_tbl, r_meta, r_ml, r_m, r_count, r_before, r_skipped>>

\* lines 225-229: write metadata.json and return the count
RwPutMeta ==
    /\ r_pc = "putmeta"
    /\ dst' = Put(dst, MetaKey(r_tbl), r_meta)
    /\ r_written' = Append(r_written, MetaKey(r_tbl))
    /\ r_pc' = "returned"
    /\ UNCHANGED <<auxVars, mode, planVars, xferVars, syncVars, ghostVars, src, faults,
                   r_tbl, r_meta, r_ml, r_m, r_count, r_before, r_skipped>>

\* line 225 raises: metadata.json cannot be written
RwPutMetaFail ==
    /\ r_pc = "putmeta"
    /\ faults > 0
    /\ faults' = faults - 1
    /\ r_pc' = "raised"
    /\ UNCHANGED <<auxVars, mode, planVars, xferVars, syncVars, ghostVars, src, dst,
                   r_tbl, r_meta, r_ml, r_m, r_count, r_before, r_skipped,
                   r_written>>

RewriteStep ==
    \/ RwNoMetadata \/ RwGetMetaFail \/ RwGetMeta
    \/ RwListSkip \/ RwList \/ RwListPutFail
    \/ RwManifestSkip \/ RwManifest \/ RwManifestPutFail
    \/ RwPutMeta \/ RwPutMetaFail

-----------------------------------------------------------------------------
(* sync.py: state records, table keys, listings *)

Letters == <<"a", "b", "c", "d", "e", "f">>
Uppers == <<"A", "B", "C", "D", "E", "F">>

\* str.upper() and str.replace("-", "_"), character by character
UpperChar(c) ==
    IF \E i \in DOMAIN Letters : Letters[i] = c
    THEN Uppers[CHOOSE i \in DOMAIN Letters : Letters[i] = c]
    ELSE c
DashToUnderscore(c) == IF c = "-" THEN "_" ELSE c

\* sync.py: _table_state_key
table_state_key(namespace, table) ==
    LET joined == namespace \o <<"_">> \o table
    IN  [i \in DOMAIN joined |-> DashToUnderscore(UpperChar(joined[i]))]

KeyOf(t) == table_state_key(tables[t].namespace, tables[t].table)

\* a sync sub-record; a key the dict does not hold is <<>>, a held number <<n>>
SyncRec(status, last_sync, object_count, total_bytes, error) ==
    [status |-> status, last_sync |-> last_sync,
     object_count |-> object_count, total_bytes |-> total_bytes,
     error |-> error, rewrite_count |-> <<>>, rewrite_error |-> <<>>]

PendingRec == SyncRec("pending", FALSE, <<>>, <<>>, <<>>)

\* mutant: the record written before the table's sync still says pending
InProgressRecPending == PendingRec

\* line 340
InProgressRec == SyncRec("in_progress", TRUE, <<>>, <<>>, <<>>)

\* lines 332-337: the record setdefault inserts
NewRecord(t) ==
    [namespace |-> tables[t].namespace, table |-> tables[t].table,
     sync |-> PendingRec, register |-> [status |-> "pending"]]

\* mutant: the record is inserted whether or not the key is there
SetDefaultOverwrites(d, k, v) ==
    [x \in DOMAIN d \cup {k} |-> IF x = k THEN v ELSE d[x]]

\* dict.setdefault
SetDefault(d, k, v) ==
    IF k \in DOMAIN d THEN d ELSE [x \in DOMAIN d \cup {k} |-> IF x = k THEN v ELSE d[x]]

\* line 288-289
StatusOf(tables_state, key) ==
    IF key \in DOMAIN tables_state THEN tables_state[key].sync.status
    ELSE "pending"

\* mutant: a table recorded as failed is not selected again
RECURSIVE ActionableSkipsFailed(_, _, _)
ActionableSkipsFailed(n, tables_state, force) ==
    IF n = 0 THEN <<>>
    ELSE LET rest == ActionableSkipsFailed(n - 1, tables_state, force)
         IN  IF force \/ StatusOf(tables_state, KeyOf(n))
                            \in {"pending", "in_progress"}
             THEN Append(rest, n) ELSE rest

\* mutant: a table recorded with a rewrite error is selected again
RECURSIVE ActionableRetriesRewrite(_, _, _)
ActionableRetriesRewrite(n, tables_state, force) ==
    IF n = 0 THEN <<>>
    ELSE LET rest == ActionableRetriesRewrite(n - 1, tables_state, force)
             key == KeyOf(n)
         IN  IF \/ force
                \/ StatusOf(tables_state, key) \in {"pending", "in_progress", "failed"}
                \/ /\ key \in DOMAIN tables_state
                   /\ tables_state[key].sync.rewrite_error # <<>>
             THEN Append(rest, n) ELSE rest

\* lines 282-293: the first n discovered tables that are actionable
RECURSIVE Actionable(_, _, _)
Actionable(n, tables_state, force) ==
    IF n = 0 THEN <<>>
    ELSE LET rest == Actionable(n - 1, tables_state, force)
         IN  IF force \/ StatusOf(tables_state, KeyOf(n))
                            \in {"pending", "in_progress", "failed"}
             THEN Append(rest, n) ELSE rest

\* bytes of an object: it grows with the bucket names in its paths
UriLen(u) == IF u = <<>> THEN 0 ELSE IF u[2] = DstBucket THEN 2 ELSE 1
Size(c) == 1 + SumSeq([i \in DOMAIN HandledUris(c) |-> UriLen(HandledUris(c)[i])])

\* the numbers n of the keys <<t, n>> the store holds under table t's prefix
KeyNumbers(store, t) == {k[2] : k \in {x \in DOMAIN store : x[1] = t}}

\* sync.py: _list_objects; S3 lists keys in ascending order
RECURSIVE ListUpTo(_, _, _)
ListUpTo(store, t, n) ==
    IF n = 0 THEN <<>>
    ELSE IF <<t, n>> \in DOMAIN store
    THEN Append(ListUpTo(store, t, n - 1), <<n, Size(store[<<t, n>>])>>)
    ELSE ListUpTo(store, t, n - 1)

MaxNumber(store, t) ==
    IF KeyNumbers(store, t) = {} THEN 0
    ELSE CHOOSE n \in KeyNumbers(store, t) : \A m \in KeyNumbers(store, t) : m <= n

list_objects(store, t) == ListUpTo(store, t, MaxNumber(store, t))

\* the same listing as the dict it is looked up in
AsMap(listing) == [k \in DictKeys(listing) |-> DictSize(listing, k)]

\* what the attempts of one transfer can meet
TransferEnvs ==
    {[i \in 1..EnvLen |-> "ok"],
     [i \in 1..EnvLen |-> IF i < 2 THEN "ClientError" ELSE "ok"],
     [i \in 1..EnvLen |-> IF i < 3 THEN "EndpointConnectionError" ELSE "ok"],
     [i \in 1..EnvLen |-> "ClientError"],
     [i \in 1..EnvLen |-> IF i < 2 THEN "ConnectionError" ELSE "Other"]}

-----------------------------------------------------------------------------
(* sync.py: the sync command, one action per step of a run *)

NoFlags == [force |-> FALSE, dry_run |-> FALSE, skip_rewrite |-> FALSE]
\* the command lines tried: no option, --force, --skip-rewrite, and
\* --dry-run alone and with each combination of the other two
Flags ==
    {NoFlags, [NoFlags EXCEPT !.force = TRUE],
     [NoFlags EXCEPT !.skip_rewrite = TRUE]} \cup
    [force : BOOLEAN, dry_run : {TRUE}, skip_rewrite : BOOLEAN]

Ended == {"idle", "done", "aborted", "crashed"}
\* the table's sync is under way: between line 341 and line 380
Window == {"marked", "transfer", "result", "rewrite"}

CurTable == s_actionable[s_i]
CurKey == KeyOf(CurTable)

NoCur == [expect |-> <<>>, xfer |-> {}, failed |-> <<>>, plan |-> <<>>,
          order |-> <<>>, before |-> <<>>]
NoCrash == [key |-> <<>>, log |-> <<>>]

SyncIdle ==
    /\ tables = <<>> /\ persisted = <<>> /\ state = <<>>
    /\ s_pc = "off" /\ s_end = "" /\ s_flags = NoFlags
    /\ s_actionable = <<>> /\ s_i = 0 /\ s_plan = <<>>
    /\ s_transferred = 0 /\ s_total_bytes = 0 /\ s_result = <<>>
    /\ s_synced = 0 /\ s_failed = 0
    /\ g_start = <<>> /\ g_log = <<>> /\ g_prev = <<>> /\ g_cur = NoCur
    /\ g_crash = NoCrash /\ g_ops = {} /\ g_calls = {}

\* the command's memory is gone (the process ended)
ProcessEnds ==
    /\ state' = <<>> /\ s_actionable' = <<>> /\ s_i' = 0 /\ s_plan' = <<>>
    /\ s_transferred' = 0 /\ s_total_bytes' = 0 /\ s_result' = <<>>
    /\ g_cur' = NoCur
    /\ r_pc' = "off" /\ r_tbl' = 0 /\ r_meta' = <<>> /\ r_ml' = <<>>
    /\ r_m' = <<>> /\ r_count' = 0 /\ r_before' = <<>> /\ r_skipped' = {}
    /\ r_written' = <<>>

\* the calls a table's processing has issued when the call named last is
\* reached: the session (line 355, not in a dry run), the source listing
\* (line 139), the destination listing (line 147)
CallsUpTo(t, last, dry_run) ==
    {<<t, c>> : c \in (IF dry_run THEN {} ELSE {"session"}) \cup
                      (IF last = "session" THEN {} ELSE {"listsrc"}) \cup
                      (IF last = "listdst" THEN {"listdst"} ELSE {})}

\* an exception leaves the command: nothing after the raising line runs
Abort(cause) ==
    /\ faults > 0
    /\ faults' = faults - 1
    /\ s_pc' = "aborted" /\ s_end' = cause
    /\ g_calls' = g_calls \cup CallsUpTo(CurTable, cause, s_flags.dry_run)
    /\ ProcessEnds
    /\ UNCHANGED <<auxVars, mode, planVars, xferVars, src, dst, tables, persisted,
                   s_flags, s_synced, s_failed, g_start, g_log, g_prev,
                   g_crash, g_ops>>

\* lines 235-322 when discovery returns and the credentials are valid:
\* load the state, select the actionable tables
StartRun ==
    /\ s_pc \in Ended
    /\ \E f \in Flags :
          LET st == persisted
              act == Actionable(Len(tables), st.tables, f.force)
          IN  /\ s_flags' = f
              /\ s_actionable' = act
              /\ IF act = <<>>
                 THEN /\ s_pc' = "done" /\ s_end' = "nothing"
                      /\ state' = <<>> /\ s_i' = 0
                 ELSE /\ s_pc' = "loop" /\ s_end' = ""
                      /\ state' = st /\ s_i' = 1
    /\ s_synced' = 0 /\ s_failed' = 0
    /\ g_start' = [persisted |-> persisted, dst |-> dst, src |-> src]
    /\ g_log' = <<>> /\ g_ops' = {} /\ g_calls' = {}
    /\ UNCHANGED <<auxVars, mode, planVars, xferVars, storeVars, rwVars, tables,
                   persisted, s_plan, s_transferred, s_total_bytes, s_result,
                   g_prev, g_cur, g_crash>>

\* lines 258-264: discovery raises, "Cannot discover tables"
StartRunDiscoverFail ==
    /\ s_pc \in Ended
    /\ \E f \in Flags : s_flags' = f
    /\ faults > 0
    /\ faults' = faults - 1
    /\ s_pc' = "aborted" /\ s_end' = "discover"
    /\ s_synced' = 0 /\ s_failed' = 0
    /\ g_start' = [persisted |-> persisted, dst |-> dst, src |-> src]
    /\ g_log' = <<>> /\ g_ops' = {} /\ g_calls' = {} /\ g_crash' = NoCrash
    /\ UNCHANGED <<auxVars, mode, planVars, xferVars, src, dst, rwVars, tables,
                   persisted, state, s_actionable, s_i, s_plan, s_transferred,
                   s_total_bytes, s_result, g_prev, g_cur>>

\* lines 318-320: preflight_aws_check raises, before the loop
StartRunPreflightFail ==
    /\ s_pc \in Ended
    /\ \E f \in Flags :
          /\ ~f.dry_run
          /\ Actionable(Len(tables), persisted.tables, f.force) # <<>>
          /\ s_flags' = f
    /\ faults > 0
    /\ faults' = faults - 1
    /\ s_pc' = "aborted" /\ s_end' = "preflight"
    /\ s_synced' = 0 /\ s_failed' = 0
    /\ g_start' = [persisted |-> persisted, dst |-> dst, src |-> src]
    /\ g_log' = <<>> /\ g_ops' = {} /\ g_calls' = {} /\ g_crash' = NoCrash
    /\ UNCHANGED <<auxVars, mode, planVars, xferVars, src, dst, rwVars, tables,
                   persisted, state, s_actionable, s_i, s_plan, s_transferred,
                   s_total_bytes, s_result, g_prev, g_cur>>

\* lines 328-341: insert the record if new, write in_progress, save the state
MarkInProgress ==
    /\ s_pc = "loop" /\ ~s_flags.dry_run
    /\ LET withRec == SetDefault(state.tables, CurKey, NewRecord(CurTable))
           marked == [withRec EXCEPT ![CurKey].sync = InProgressRec]
       IN  /\ state' = [state EXCEPT !.tables = marked]
           /\ persisted' = state'
    /\ s_pc' = "marked"
    /\ g_cur' = [expect |-> IF CurKey \in DOMAIN g_prev
                            THEN <<g_prev[CurKey]>> ELSE <<>>,
                 xfer |-> {}, failed |-> <<>>, plan |-> <<>>,
                 order |-> <<>>, before |-> <<>>]
    /\ g_prev' = [k \in DOMAIN g_prev \ {CurKey} |-> g_prev[k]]
    /\ g_crash' = NoCrash
    /\ UNCHANGED <<auxVars, mode, planVars, xferVars, storeVars, rwVars, tables,
                   s_end, s_flags, s_actionable, s_i, s_plan, s_transferred,
                   s_total_bytes, s_result, s_synced, s_failed, g_start,
                   g_log, g_ops,
                   g_calls>>

\* line 355: create_cloud_session raises (get_caller_identity fails)
SessionFail ==
    /\ s_pc = "marked"
    /\ Abort("session")

\* line 139: listing the source store raises
ListSrcFail ==
    /\ \/ s_pc = "marked"
       \/ s_pc = "loop" /\ s_flags.dry_run
    /\ Abort("listsrc")

\* line 147: listing the destination store raises
ListDstFail ==
    /\ s_pc = "marked" /\ ~s_flags.force
    /\ list_objects(src, CurTable) # <<>>
    /\ Abort("listdst")

\* mutant: the result of a finished table carries no counts
SyncedRecNoCounts(n, bytes) == SyncRec("synced", TRUE, <<>>, <<>>, <<>>)

\* lines 190-195
SyncedRec(n, bytes) == SyncRec("synced", TRUE, <<n>>, <<bytes>>, <<>>)

\* mutant: the failure is recorded without its error
FailedRecNoError(n, bytes, error) == SyncRec("failed", TRUE, <<n>>, <<bytes>>, <<>>)

\* mutant: the key whose transfer raised is counted as transferred
FailedRecCountsFailing(n, bytes, error) ==
    SyncRec("failed", TRUE, <<n + 1>>, <<bytes>>, error)

\* lines 181-187
FailedRec(n, bytes, error) == SyncRec("failed", TRUE, <<n>>, <<bytes>>, error)

\* lines 355-356 and 139-168: the session is created, both stores are listed,
\* the plan is computed
SyncList ==
    /\ s_pc = "marked"
    /\ LET src_objects == list_objects(src, CurTable)
           dst_objects == IF s_flags.force THEN <<>>
                          ELSE AsMap(list_objects(dst, CurTable))
           to_transfer == compute_transfer_plan(src_objects, dst_objects,
                                                s_flags.force)
       IN  /\ IF src_objects = <<>> \/ to_transfer = <<>>
              THEN /\ s_result' = SyncedRec(0, 0)
                   /\ s_pc' = "result"
                   /\ s_plan' = <<>>
              ELSE /\ s_plan' = to_transfer
                   /\ s_pc' = "transfer"
                   /\ s_result' = <<>>
           /\ g_calls' = g_calls \cup
                 CallsUpTo(CurTable,
                           IF src_objects = <<>> \/ s_flags.force
                           THEN "listsrc" ELSE "listdst", FALSE)
           /\ g_cur' = [g_cur EXCEPT !.plan = to_transfer, !.before = dst]
    /\ s_transferred' = 0 /\ s_total_bytes' = 0
    /\ g_ops' = g_ops \cup {CurTable}
    /\ UNCHANGED <<auxVars, mode, planVars, xferVars, storeVars, rwVars, tables,
                   persisted, state, s_end, s_flags, s_actionable, s_i,
                   s_synced, s_failed, g_start, g_log, g_prev, g_crash>>

\* lines 172-178 and 189-195: one object is transferred
TransferKeyOk ==
    /\ s_pc = "transfer"
    /\ \E env \in TransferEnvs :
          LET k == <<CurTable, Head(s_plan)>>
              res == transfer_object(env, Size(src[k]))
          IN  /\ res.status = "returned"
              /\ dst' = Put(dst, k, src[k])
              /\ s_transferred' = s_transferred + 1
              /\ s_total_bytes' = s_total_bytes + res.bytes
    /\ s_plan' = Tail(s_plan)
    /\ IF Tail(s_plan) = <<>>
       THEN /\ s_pc' = "result"
            /\ s_result' = SyncedRec(s_transferred', s_total_bytes')
       ELSE UNCHANGED <<s_pc, s_result>>
    /\ g_cur' = [g_cur EXCEPT !.xfer = @ \cup {Head(s_plan)},
                              !.order = Append(@, Head(s_plan))]
    /\ g_calls' = g_calls \cup {<<CurTable, "put">>}
    /\ UNCHANGED <<auxVars, mode, planVars, xferVars, src, faults, rwVars, tables,
                   persisted, state, s_end, s_flags, s_actionable, s_i,
                   s_synced, s_failed, g_start, g_log, g_prev, g_crash, g_ops>>

\* the source keys of table t that are not at the destination with equal size
Missing(t) ==
    {n \in KeyNumbers(src, t) :
        \/ <<t, n>> \notin DOMAIN dst
        \/ Size(dst[<<t, n>>]) # Size(src[<<t, n>>])}

\* lines 179-187: the transfer raises after the retries; the table has failed
TransferKeyFail ==
    /\ s_pc = "transfer"
    /\ faults > 0
    /\ faults' = faults - 1
    /\ \E env \in TransferEnvs :
          LET k == <<CurTable, Head(s_plan)>>
              res == transfer_object(env, Size(src[k]))
          IN  /\ res.status = "raised"
              /\ s_result' = FailedRec(s_transferred, s_total_bytes,
                                       <<Head(s_plan), res.error[1]>>)
    /\ s_pc' = "result"
    /\ g_prev' = [k \in DOMAIN g_prev \cup {CurKey} |->
                    IF k = CurKey
                    THEN [missing |-> Missing(CurTable),
                          left |-> Range(s_plan),
                          force |-> s_flags.force]
                    ELSE g_prev[k]]
    /\ g_cur' = [g_cur EXCEPT !.failed = <<Head(s_plan)>>,
                              !.order = Append(@, Head(s_plan))]
    /\ UNCHANGED <<auxVars, mode, planVars, xferVars, src, dst, rwVars, tables,
                   persisted, state, s_end, s_flags, s_actionable, s_i, s_plan,
                   s_transferred, s_total_bytes, s_synced, s_failed, g_start,
                   g_log, g_crash, g_ops,
                   g_calls>>

\* mutant: the rewrite is called whatever the outcome of the table
StartRewriteAnyOutcome ==
    /\ s_pc = "result"
    /\ ~s_flags.skip_rewrite
    /\ s_pc' = "rewrite"
    /\ r_pc' = "find" /\ r_tbl' = CurTable
    /\ r_meta' = <<>> /\ r_ml' = <<>> /\ r_m' = <<>> /\ r_count' = 0
    /\ r_before' = dst /\ r_skipped' = {} /\ r_written' = <<>>
    /\ g_calls' = g_calls \cup {<<CurTable, "rewrite">>}
    /\ UNCHANGED <<auxVars, mode, planVars, xferVars, storeVars, tables, persisted,
                   state, s_end, s_flags, s_actionable, s_i, s_plan,
                   s_transferred, s_total_bytes, s_result, s_synced, s_failed,
                   g_start, g_log, g_prev, g_cur, g_crash, g_ops>>

\* lines 361-368: the table is synced and rewriting is enabled
StartRewrite ==
    /\ s_pc = "result"
    /\ s_result.status = "synced" /\ ~s_flags.skip_rewrite
    /\ s_pc' = "rewrite"
    /\ r_pc' = "find" /\ r_tbl' = CurTable
    /\ r_meta' = <<>> /\ r_ml' = <<>> /\ r_m' = <<>> /\ r_count' = 0
    /\ r_before' = dst /\ r_skipped' = {} /\ r_written' = <<>>
    /\ g_calls' = g_calls \cup {<<CurTable, "rewrite">>}
    /\ UNCHANGED <<auxVars, mode, planVars, xferVars, storeVars, tables, persisted,
                   state, s_end, s_flags, s_actionable, s_i, s_plan,
                   s_transferred, s_total_bytes, s_result, s_synced, s_failed,
                   g_start, g_log, g_prev, g_cur, g_crash, g_ops>>

\* mutant: a rewrite that raised makes the table failed
SaveFinalRewriteFails ==
    /\ \/ s_pc = "result" /\ (s_result.status # "synced" \/ s_flags.skip_rewrite)
       \/ s_pc = "rewrite" /\ r_pc \in {"returned", "raised"}
    /\ LET result == IF s_pc = "result" THEN s_result
                     ELSE IF r_pc = "returned"
                     THEN [s_result EXCEPT !.rewrite_count = <<r_count>>]
                     ELSE [s_result EXCEPT !.status = "failed",
                                              !.error = <<"error">>]
       IN  /\ state' = [state EXCEPT !.tables[CurKey].sync = result]
           /\ persisted' = state'
           /\ g_log' = Append(g_log, [t |-> CurTable, key |-> CurKey,
                                      result |-> result,
                                      expect |-> g_cur.expect,
                                      xfer |-> g_cur.xfer,
                                      failed |-> g_cur.failed])
    /\ IF s_result.status = "synced" /\ r_pc # "raised"
       THEN s_synced' = s_synced + 1 /\ UNCHANGED s_failed
       ELSE s_failed' = s_failed + 1 /\ UNCHANGED s_synced
    /\ s_i' = s_i + 1
    /\ IF s_i = Len(s_actionable)
       THEN s_pc' = "done" /\ s_end' = "summary"
       ELSE s_pc' = "loop" /\ UNCHANGED s_end
    /\ s_plan' = <<>> /\ s_transferred' = 0 /\ s_total_bytes' = 0
    /\ s_result' = <<>> /\ g_cur' = NoCur
    /\ r_pc' = "off" /\ r_tbl' = 0 /\ r_meta' = <<>> /\ r_ml' = <<>>
    /\ r_m' = <<>> /\ r_count' = 0 /\ r_before' = <<>> /\ r_skipped' = {}
    /\ r_written' = <<>>
    /\ UNCHANGED <<auxVars, mode, planVars, xferVars, storeVars, tables, s_flags,
                   s_actionable, g_start, g_prev, g_crash, g_ops,
                   g_calls>>

\* lines 369-385: record the rewrite's outcome, store the result, save the
\* state, count the table; after the last table, lines 389-395
SaveFinal ==
    /\ \/ s_pc = "result" /\ (s_result.status # "synced" \/ s_flags.skip_rewrite)
       \/ s_pc = "rewrite" /\ r_pc \in {"returned", "raised"}
    /\ LET result == IF s_pc = "result" THEN s_result
                     ELSE IF r_pc = "returned"
                     THEN [s_result EXCEPT !.rewrite_count = <<r_count>>]
                     ELSE [s_result EXCEPT !.rewrite_error = <<"error">>]
       IN  /\ state' = [state EXCEPT !.tables[CurKey].sync = result]
           /\ persisted' = state'
           /\ g_log' = Append(g_log, [t |-> CurTable, key |-> CurKey,
                                      result |-> result,
                                      expect |-> g_cur.expect,
                                      xfer |-> g_cur.xfer,
                                      failed |-> g_cur.failed])
    /\ IF s_result.status = "synced"
       THEN s_synced' = s_synced + 1 /\ UNCHANGED s_failed
       ELSE s_failed' = s_failed + 1 /\ UNCHANGED s_synced
    /\ s_i' = s_i + 1
    /\ IF s_i = Len(s_actionable)
       THEN s_pc' = "done" /\ s_end' = "summary"
       ELSE s_pc' = "loop" /\ UNCHANGED s_end
    /\ s_plan' = <<>> /\ s_transferred' = 0 /\ s_total_bytes' = 0
    /\ s_result' = <<>> /\ g_cur' = NoCur
    /\ r_pc' = "off" /\ r_tbl' = 0 /\ r_meta' = <<>> /\ r_ml' = <<>>
    /\ r_m' = <<>> /\ r_count' = 0 /\ r_before' = <<>> /\ r_skipped' = {}
    /\ r_written' = <<>>
    /\ UNCHANGED <<auxVars, mode, planVars, xferVars, storeVars, tables, s_flags,
                   s_actionable, g_start, g_prev, g_crash, g_ops,
                   g_calls>>

\* mutant: the dry run saves the state with the counts it computed
DryTableSaves ==
    /\ s_pc = "loop" /\ s_flags.dry_run
    /\ LET src_objects == list_objects(src, CurTable)
           to_transfer == compute_transfer_plan(src_objects, <<>>, TRUE)
           counts == IF src_objects = <<>> THEN <<0, 0>>
                     ELSE <<Len(to_transfer),
                            SumSeq([i \in DOMAIN to_transfer |->
                                      DictSize(src_objects, to_transfer[i])])>>
           withRec == SetDefault(state.tables, CurKey, NewRecord(CurTable))
       IN  state' = [state EXCEPT !.tables =
                       [withRec EXCEPT ![CurKey].sync.object_count = <<counts[1]>>,
                                       ![CurKey].sync.total_bytes = <<counts[2]>>]]
    /\ persisted' = state'
    /\ s_i' = s_i + 1
    /\ IF s_i = Len(s_actionable)
       THEN s_pc' = "done" /\ s_end' = "dry"
       ELSE s_pc' = "loop" /\ UNCHANGED s_end
    /\ g_ops' = g_ops \cup {CurTable}
    /\ g_calls' = g_calls \cup CallsUpTo(CurTable, "listsrc", TRUE)
    /\ g_crash' = NoCrash
    /\ UNCHANGED <<auxVars, mode, planVars, xferVars, storeVars, rwVars, tables,
                   s_flags, s_actionable, s_plan, s_transferred,
                   s_total_bytes, s_result, s_synced, s_failed, g_start,
                   g_log, g_prev, g_cur>>

\* lines 343-352 and 139-164: a dry run lists the source of one table and
\* keeps the counts in memory only; after the last table, line 388
DryTable ==
    /\ s_pc = "loop" /\ s_flags.dry_run
    /\ LET src_objects == list_objects(src, CurTable)
           to_transfer == compute_transfer_plan(src_objects, <<>>, TRUE)
           counts == IF src_objects = <<>> THEN <<0, 0>>
                     ELSE <<Len(to_transfer),
                            SumSeq([i \in DOMAIN to_transfer |->
                                      DictSize(src_objects, to_transfer[i])])>>
           withRec == SetDefault(state.tables, CurKey, NewRecord(CurTable))
       IN  state' = [state EXCEPT !.tables =
                       [withRec EXCEPT ![CurKey].sync.object_count = <<counts[1]>>,
                                       ![CurKey].sync.total_bytes = <<counts[2]>>]]
    /\ s_i' = s_i + 1
    /\ IF s_i = Len(s_actionable)
       THEN s_pc' = "done" /\ s_end' = "dry"
       ELSE s_pc' = "loop" /\ UNCHANGED s_end
    /\ g_ops' = g_ops \cup {CurTable}
    /\ g_calls' = g_calls \cup CallsUpTo(CurTable, "listsrc", TRUE)
    /\ g_crash' = NoCrash
    /\ UNCHANGED <<auxVars, mode, planVars, xferVars, storeVars, rwVars, tables,
                   persisted, s_flags, s_actionable, s_plan, s_transferred,
                   s_total_bytes, s_result, s_synced, s_failed, g_start,
                   g_log, g_prev, g_cur>>

\* the process is interrupted (killed) between two steps of a run
Crash ==
    /\ s_pc \in {"loop"} \cup Window
    /\ faults > 0
    /\ faults' = faults - 1
    /\ g_crash' = [key |-> IF s_pc \in Window THEN <<CurKey>> ELSE <<>>,
                   log |-> g_log]
    /\ s_pc' = "crashed" /\ s_end' = "crash"
    /\ ProcessEnds
    /\ UNCHANGED <<auxVars, mode, planVars, xferVars, src, dst, tables, persisted,
                   s_flags, s_synced, s_failed, g_start, g_log, g_prev, g_ops,
                   g_calls>>


-----------------------------------------------------------------------------
(* Specification SpecPlan: planTransfer on arbitrary listings *)

PlanIdle ==
    /\ p_src = <<>> /\ p_dst = <<>> /\ p_force = FALSE
    /\ p_plan = <<>> /\ p_pc = "off"

XferIdle ==
    /\ t_env = <<>> /\ t_size = 0 /\ t_res = <<>> /\ t_pc = "off"

StoreIdle ==
    /\ src = <<>> /\ dst = <<>> /\ faults = 0

InitPlan ==
    /\ mode = "plan"
    /\ p_src \in Dicts
    /\ p_dst \in Maps
    /\ p_force \in BOOLEAN
    /\ p_plan = <<>>
    /\ p_pc = "init"
    /\ XferIdle /\ StoreIdle /\ RwIdle /\ SyncIdle /\ AuxIdle

\* the call itself
PlanCompute ==
    /\ mode = "plan" /\ p_pc = "init"
    /\ p_plan' = compute_transfer_plan(p_src, p_dst, p_force)
    /\ p_pc' = "done"
    /\ UNCHANGED <<auxVars, mode, p_src, p_dst, p_force, xferVars, storeVars, rwVars,
                   syncVars, ghostVars>>

\* the same listing met in another iteration order (two neighbours swapped)
PlanReorder ==
    /\ mode = "plan"
    /\ \E i \in 1..(Len(p_src) - 1) :
          p_src' = [p_src EXCEPT ![i] = p_src[i + 1], ![i + 1] = p_src[i]]
    /\ UNCHANGED <<auxVars, mode, p_dst, p_force, p_plan, p_pc, xferVars, storeVars,
                   rwVars, syncVars, ghostVars>>

NextPlan == PlanCompute \/ PlanReorder

SpecPlan == InitPlan /\ [][NextPlan]_vars

-----------------------------------------------------------------------------
(* Specification SpecTransfer: one transferObject call *)

InitTransfer ==
    /\ mode = "transfer"
    /\ t_env \in SeqsOfLen(Outcomes, EnvLen)
    /\ t_size \in Sizes \cup {0}
    /\ t_res = <<>>
    /\ t_pc = "init"
    /\ PlanIdle /\ StoreIdle /\ RwIdle /\ SyncIdle /\ AuxIdle

TransferCall ==
    /\ mode = "transfer" /\ t_pc = "init"
    /\ t_res' = transfer_object(t_env, t_size)
    /\ t_pc' = "done"
    /\ UNCHANGED <<auxVars, mode, t_env, t_size, planVars, storeVars, rwVars, syncVars,
                   ghostVars>>

NextTransfer == TransferCall

SpecTransfer == InitTransfer /\ [][NextTransfer]_vars

-----------------------------------------------------------------------------
(* Specification SpecRewrite: one rewrite_table_paths call on a table that *)
(* sync has copied to the destination                                      *)

InitRewrite ==
    /\ mode = "rewrite"
    /\ \E shape \in Shapes(NLists) :
          /\ src = Tree(1, NLists, shape)
          \* every object was copied, or one of them is missing
          /\ \E gone \in {{}} \cup {{k} : k \in DOMAIN src} :
                dst = [k \in DOMAIN src \ gone |-> src[k]]
    /\ faults = MaxFaults
    /\ r_pc = "find" /\ r_tbl = 1
    /\ r_meta = <<>> /\ r_ml = <<>> /\ r_m = <<>> /\ r_count = 0
    /\ r_before = dst /\ r_skipped = {} /\ r_written = <<>>
    /\ PlanIdle /\ XferIdle /\ SyncIdle /\ AuxIdle

NextRewrite ==
    \/ RwNoMetadata \/ RwGetMetaFail \/ RwGetMeta
    \/ RwListSkip \/ RwList \/ RwListPutFail
    \/ RwManifestSkip \/ RwManifest \/ RwManifestPutFail
    \/ RwPutMeta \/ RwPutMetaFail

SpecRewrite == InitRewrite /\ [][NextRewrite]_vars

-----------------------------------------------------------------------------
(* Specification SpecSync: runs of the sync command, one after another,    *)
(* over tables whose trees are in the source bucket                        *)

\* the tree every table of SpecSync has: one snapshot, its manifest list
\* with one manifest, one data file
SyncShape == [odd |-> 0, style |-> "s3a", share |-> FALSE]

SyncTree(t) ==
    LET full == Tree(t, 1, SyncShape)
    IN  [k \in DOMAIN full \ {SharedManifestKey(t, 1)} |-> full[k]]

RECURSIVE Trees(_)
Trees(n) ==
    IF n = 0 THEN <<>>
    ELSE LET rest == Trees(n - 1)
             tree == SyncTree(n)
         IN  [k \in DOMAIN rest \cup DOMAIN tree |->
                IF k \in DOMAIN tree THEN tree[k] ELSE rest[k]]

InitSync ==
    /\ mode = "sync"
    /\ tables = [i \in 1..NTables |->
                  [namespace |-> <<"a", "-", "b">>, table |-> <<Letters[i]>>]]
    \* the last table has objects in the source bucket, or has none
    /\ src \in {Trees(NTables), Trees(NTables - 1)}
    /\ dst = <<>>
    /\ faults = MaxFaults
    /\ persisted = [aws |-> [bucket |-> DstBucket], tables |-> <<>>]
    /\ state = <<>>
    /\ s_pc = "idle" /\ s_end = "" /\ s_flags = NoFlags
    /\ s_actionable = <<>> /\ s_i = 0 /\ s_plan = <<>>
    /\ s_transferred = 0 /\ s_total_bytes = 0 /\ s_result = <<>>
    /\ s_synced = 0 /\ s_failed = 0
    /\ g_start = <<>> /\ g_log = <<>> /\ g_prev = <<>> /\ g_cur = NoCur
    /\ g_crash = NoCrash /\ g_ops = {} /\ g_calls = {}
    /\ PlanIdle /\ XferIdle /\ RwIdle /\ AuxIdle

NextSync ==
    \/ StartRun \/ StartRunDiscoverFail \/ StartRunPreflightFail
    \/ MarkInProgress \/ SessionFail \/ ListSrcFail \/ ListDstFail
    \/ SyncList \/ TransferKeyOk \/ TransferKeyFail
    \/ StartRewrite \/ SaveFinal \/ DryTable \/ Crash
    \/ RwNoMetadata \/ RwGetMetaFail \/ RwGetMeta
    \/ RwListSkip \/ RwList \/ RwListPutFail
    \/ RwManifestSkip \/ RwManifest \/ RwManifestPutFail
    \/ RwPutMeta \/ RwPutMetaFail

SpecSync == InitSync /\ [][NextSync]_vars

-----------------------------------------------------------------------------
(* sessions.py: the environment of the commands that build cloud sessions *)

coreVars == <<planVars, xferVars, storeVars, rwVars, syncVars, ghostVars>>
CoreIdle == PlanIdle /\ XferIdle /\ StoreIdle /\ RwIdle /\ SyncIdle

\* sessions.py: _AWS_ENV_VARS
AWS_ENV_VARS ==
    {"AWS_ACCESS_KEY_ID", "AWS_SECRET_ACCESS_KEY", "AWS_SESSION_TOKEN",
     "AWS_ENDPOINT_URL", "AWS_DEFAULT_REGION", "AWS_REGION",
     "AWS_PROFILE", "AWS_DEFAULT_PROFILE",
     "AWS_CONFIG_FILE", "AWS_SHARED_CREDENTIALS_FILE"}

\* the variables the process may start with: what the project's .env sets
\* for the local store, and one variable that is not the local store's
Ambient ==
    {"AWS_ACCESS_KEY_ID", "AWS_SECRET_ACCESS_KEY", "AWS_ENDPOINT_URL",
     "L2C_AWS_PROFILE"}

\* a with-block (scoped) or plain statements, holding n create_cloud_session calls
Block(scoped, n) == [scoped |-> scoped, calls |-> n]

Commands ==
    {"sync", "register", "refresh", "setup_snowflake", "setup_aws",
     "clear", "clear_dry_run", "cleanup"}

\* the create_cloud_session call sites of each command, in program order
Sites(cmd) ==
    CASE cmd = "sync" -> <<Block(TRUE, 1), Block(TRUE, 1)>>
      [] cmd = "register" -> <<Block(TRUE, 1)>>
      [] cmd = "refresh" -> <<Block(TRUE, 1)>>
      [] cmd = "setup_snowflake" -> <<Block(TRUE, 1)>>
      [] cmd = "setup_aws" -> <<Block(FALSE, 1)>>
      [] cmd = "clear_dry_run" -> <<Block(TRUE, 1)>>
      [] cmd = "clear" -> <<Block(TRUE, 1), Block(TRUE, 1)>>
      [] cmd = "cleanup" -> <<Block(TRUE, 2)>>

\* a command is invoked
EnvStart ==
    /\ e_pc = "idle"
    /\ \E cmd \in Commands :
          /\ e_cmd' = cmd
          /\ e_blocks' = Sites(cmd)
    /\ e_pc' = "next"
    /\ e_last' = <<>>
    /\ UNCHANGED <<mode, coreVars, envRest, e_left, e_environ, e_saved>>

\* scrubbed_aws_env, entering the block: line 82
EnvEnterScope ==
    /\ e_pc = "next" /\ e_blocks # <<>> /\ Head(e_blocks).scoped
    /\ e_saved' = e_environ \cap AWS_ENV_VARS
    /\ e_environ' = e_environ \ AWS_ENV_VARS
    /\ e_left' = Head(e_blocks).calls
    /\ e_pc' = "scope"
    /\ UNCHANGED <<mode, coreVars, envRest, e_cmd, e_blocks, e_last>>

\* statements outside every with-block: nothing is removed
EnvEnterPlain ==
    /\ e_pc = "next" /\ e_blocks # <<>> /\ ~Head(e_blocks).scoped
    /\ e_left' = Head(e_blocks).calls
    /\ e_pc' = "plain"
    /\ UNCHANGED <<mode, coreVars, envRest, e_cmd, e_blocks, e_environ, e_saved, e_last>>

\* create_cloud_session: boto3.Session reads the environment as it is now
EnvCreateCloudSession ==
    /\ e_pc \in {"scope", "plain"} /\ e_left > 0
    /\ e_last' = [cmd |-> e_cmd, scope |-> e_pc = "scope", environ |-> e_environ]
    /\ e_left' = e_left - 1
    /\ UNCHANGED <<mode, coreVars, envRest, e_pc, e_cmd, e_blocks, e_environ, e_saved>>

\* scrubbed_aws_env, leaving the block: line 86; or the plain statements end
EnvLeave ==
    /\ e_pc \in {"scope", "plain"} /\ e_left = 0
    /\ e_environ' = e_environ \cup e_saved
    /\ e_saved' = {}
    /\ e_blocks' = Tail(e_blocks)
    /\ e_pc' = "next"
    /\ UNCHANGED <<mode, coreVars, envRest, e_cmd, e_left, e_last>>

\* the command returns
EnvEnd ==
    /\ e_pc = "next" /\ e_blocks = <<>>
    /\ e_pc' = "idle"
    /\ UNCHANGED <<mode, coreVars, envRest, e_cmd, e_blocks, e_left, e_environ, e_saved,
                   e_last>>

-----------------------------------------------------------------------------
(* Specification SpecEnv: commands run one after another in one environment *)

InitEnv ==
    /\ mode = "env"
    /\ e_environ \in SUBSET Ambient
    /\ e_pc = "idle" /\ e_cmd = "" /\ e_blocks = <<>> /\ e_left = 0
    /\ e_saved = {} /\ e_last = <<>>
    /\ CoreIdle /\ EnvRestIdle

NextEnv ==
    \/ EnvStart \/ EnvEnterScope \/ EnvEnterPlain \/ EnvCreateCloudSession
    \/ EnvLeave \/ EnvEnd

SpecEnv == InitEnv /\ [][NextEnv]_vars

-----------------------------------------------------------------------------
(* sync.py, register.py: the records and names of two discovered tables *)

MaxName == 2

NameChars == {"a", "-", "_"}

\* the namespace and table names of at most MaxName characters
Names == UNION {SeqsOfLen(NameChars, n) : n \in 1..MaxName}

TableIds == [namespace : Names, table : Names]

\* register.py: _sf_table_name
sf_table_name(namespace, table) ==
    LET joined == namespace \o <<"_">> \o table
    IN  [i \in DOMAIN joined |-> DashToUnderscore(UpperChar(joined[i]))]

\* sync.py lines 330-337 and 379, register.py lines 120 and 158-163, for
\* the next of the two tables: its record is inserted if its key is new, its
\* outcome is stored under its key, its Snowflake table is created
KeyRecord ==
    /\ k_pc \in {1, 2}
    /\ LET t == k_tables[k_pc]
           key == table_state_key(t.namespace, t.table)
           sf_name == sf_table_name(t.namespace, t.table)
           withRec == SetDefault(k_state, key,
                                 [namespace |-> t.namespace, table |-> t.table,
                                  sync |-> PendingRec,
                                  register |-> [status |-> "pending"]])
       IN  /\ k_state' = [withRec EXCEPT ![key].sync = SyncedRec(k_pc, k_pc)]
           /\ k_sf' = [n \in DOMAIN k_sf \cup {sf_name} |->
                         IF n = sf_name THEN k_pc ELSE k_sf[n]]
    /\ k_pc' = k_pc + 1
    /\ UNCHANGED <<mode, coreVars, keyRest, k_tables>>

-----------------------------------------------------------------------------
(* Specification SpecKey: two distinct tables are recorded, one after the other *)

InitKey ==
    /\ mode = "key"
    /\ k_tables \in {<<x, y>> : x \in TableIds, y \in TableIds}
    /\ k_tables[1] # k_tables[2]
    /\ k_pc = 1 /\ k_state = <<>> /\ k_sf = <<>>
    /\ CoreIdle /\ KeyRestIdle

NextKey == KeyRecord

SpecKey == InitKey /\ [][NextKey]_vars

-----------------------------------------------------------------------------
(* register.py: the register command, one action per step of a run *)

NRegTables == 2

\* the sync variables the register command has no part in
syncLocals == <<s_pc, s_end, s_flags, s_actionable, s_i, s_plan,
                s_transferred, s_total_bytes, s_result, s_synced, s_failed>>

SyncLocalsIdle ==
    /\ s_pc = "off" /\ s_end = "" /\ s_flags = NoFlags
    /\ s_actionable = <<>> /\ s_i = 0 /\ s_plan = <<>>
    /\ s_transferred = 0 /\ s_total_bytes = 0 /\ s_result = <<>>
    /\ s_synced = 0 /\ s_failed = 0

GhostIdle ==
    /\ g_start = <<>> /\ g_log = <<>> /\ g_prev = <<>> /\ g_cur = NoCur
    /\ g_crash = NoCrash /\ g_ops = {} /\ g_calls = {}

regFrame == <<mode, planVars, xferVars, rwVars, ghostVars, syncLocals, regRest,
              src, dst, tables>>

\* the index of the discovered table a record names
TableOf(rec) ==
    CHOOSE t \in DOMAIN tables :
        tables[t].namespace = rec.namespace /\ tables[t].table = rec.table

\* mutant: every table that is not registered yet is selected
RECURSIVE RegisterableAnySync(_, _)
RegisterableAnySync(n, tables_state) ==
    IF n = 0 THEN <<>>
    ELSE LET rest == RegisterableAnySync(n - 1, tables_state)
             key == KeyOf(n)
         IN  IF /\ key \in DOMAIN tables_state
                /\ tables_state[key].register.status # "done"
             THEN Append(rest, key) ELSE rest

\* lines 88-93: the keys of tables_state, in the order of the dict, whose
\* table is synced and not registered
RECURSIVE Registerable(_, _)
Registerable(n, tables_state) ==
    IF n = 0 THEN <<>>
    ELSE LET rest == Registerable(n - 1, tables_state)
             key == KeyOf(n)
         IN  IF /\ key \in DOMAIN tables_state
                /\ tables_state[key].sync.status = "synced"
                /\ tables_state[key].register.status # "done"
             THEN Append(rest, key) ELSE rest

\* lines 128-129: the register record after the metadata was not found
RegNoMetadataRec == [status |-> "failed", error |-> "No metadata files found"]

\* lines 158-163
RegDoneRec(sf_name, metadata_path) ==
    [status |-> "done", registered_at |-> TRUE, sf_table |-> sf_name,
     metadata_path |-> metadata_path]

\* lines 168-171
RegFailedRec == [status |-> "failed", error |-> "sql"]

RegEnded == {"idle", "done", "aborted", "crashed"}

\* lines 65-112: load the state, select the registerable tables, build the
\* cloud session
RegStart ==
    /\ x_pc \in RegEnded
    /\ \E f \in [dry_run : BOOLEAN, yes : BOOLEAN] : x_flags' = f
    /\ LET reg == Registerable(Len(tables), persisted.tables)
       IN  /\ x_reg' = reg
           /\ IF reg = <<>>
              THEN x_pc' = "done" /\ state' = <<>>
              ELSE x_pc' = "loop" /\ state' = persisted
    /\ x_registered' = 0 /\ x_failed' = 0
    /\ x_start' = persisted /\ x_done' = <<>>
    /\ UNCHANGED <<regFrame, persisted, faults>>

\* the command is left by an exception (lines 112, 122) or is interrupted:
\* what it had changed in memory is lost
RegLeave(pc) ==
    /\ faults > 0
    /\ faults' = faults - 1
    /\ x_pc' = pc
    /\ state' = <<>> /\ x_reg' = <<>>
    /\ UNCHANGED <<regFrame, persisted, x_flags, x_registered, x_failed,
                   x_start, x_done>>

\* line 122: find_latest_metadata raises
RegFindFail == x_pc = "loop" /\ x_reg # <<>> /\ RegLeave("aborted")

\* the process is interrupted during the loop
RegCrash == x_pc = "loop" /\ RegLeave("crashed")

RegKey == Head(x_reg)
RegMetadata == find_latest_metadata(dst, TableOf(state.tables[RegKey]))

RegVisited(outcome) ==
    Append(x_done, [key |-> RegKey, outcome |-> outcome,
                    sync |-> persisted.tables[RegKey].sync.status])

\* lines 122-131: no metadata file at the destination
RegNoMetadata ==
    /\ x_pc = "loop" /\ x_reg # <<>>
    /\ RegMetadata = <<>>
    /\ IF x_flags.dry_run THEN UNCHANGED state
       ELSE state' = [state EXCEPT !.tables[RegKey].register = RegNoMetadataRec]
    /\ x_failed' = x_failed + 1
    /\ x_reg' = Tail(x_reg)
    /\ x_done' = RegVisited("nometadata")
    /\ UNCHANGED <<regFrame, persisted, faults, x_pc, x_flags, x_registered,
                   x_start>>

\* lines 145-154: a dry run prints the SQL; or the user declines the table
RegSkip ==
    /\ x_pc = "loop" /\ x_reg # <<>>
    /\ RegMetadata # <<>>
    /\ x_flags.dry_run \/ ~x_flags.yes
    /\ x_reg' = Tail(x_reg)
    /\ x_done' = RegVisited("skipped")
    /\ UNCHANGED <<regFrame, persisted, state, faults, x_pc, x_flags,
                   x_registered, x_failed, x_start>>

\* lines 156-165: the SQL succeeds
RegDone ==
    /\ x_pc = "loop" /\ x_reg # <<>>
    /\ RegMetadata # <<>> /\ ~x_flags.dry_run
    /\ LET rec == state.tables[RegKey]
       IN  state' = [state EXCEPT !.tables[RegKey].register =
                        RegDoneRec(sf_table_name(rec.namespace, rec.table),
                                   RegMetadata[1])]
    /\ x_registered' = x_registered + 1
    /\ x_reg' = Tail(x_reg)
    /\ x_done' = RegVisited("done")
    /\ UNCHANGED <<regFrame, persisted, faults, x_pc, x_flags, x_failed,
                   x_start>>

\* lines 166-172: the SQL raises
RegFail ==
    /\ x_pc = "loop" /\ x_reg # <<>>
    /\ RegMetadata # <<>> /\ ~x_flags.dry_run
    /\ state' = [state EXCEPT !.tables[RegKey].register = RegFailedRec]
    /\ x_failed' = x_failed + 1
    /\ x_reg' = Tail(x_reg)
    /\ x_done' = RegVisited("failed")
    /\ UNCHANGED <<regFrame, persisted, faults, x_pc, x_flags, x_registered,
                   x_start>>

\* line 176: after the loop, the state is saved
RegSave ==
    /\ x_pc = "loop" /\ x_reg = <<>>
    /\ persisted' = state
    /\ state' = <<>>
    /\ x_pc' = "done"
    /\ UNCHANGED <<regFrame, faults, x_flags, x_reg, x_registered, x_failed,
                   x_start, x_done>>

-----------------------------------------------------------------------------
(* Specification SpecRegister: runs of the register command over a state   *)
(* file that sync runs have left                                           *)

\* the sync records a sync run can leave
SyncRecords ==
    {PendingRec, InProgressRec, SyncedRec(1, 1),
     FailedRec(0, 0, <<1, "ClientError">>)}

\* the register records a register run can leave for table t; a table that
\* was never synced has never been visited by the register command
RegisterRecords(t, sync) ==
    IF sync.status = "pending" THEN {[status |-> "pending"]}
    ELSE {[status |-> "pending"], RegFailedRec, RegNoMetadataRec,
          RegDoneRec(sf_table_name(tables[t].namespace, tables[t].table),
                     MetaKey(t))}

InitRegister ==
    /\ mode = "register"
    /\ tables = [i \in 1..NRegTables |->
                  [namespace |-> <<"a", "-", "b">>, table |-> <<Letters[i]>>]]
    /\ \E syncs \in [1..NRegTables -> SyncRecords] :
       \E regs \in [1..NRegTables -> UNION {RegisterRecords(t, PendingRec) \cup
                                            RegisterRecords(t, InProgressRec) :
                                            t \in 1..NRegTables}] :
          /\ \A t \in 1..NRegTables : regs[t] \in RegisterRecords(t, syncs[t])
          /\ persisted =
               [aws |-> [bucket |-> DstBucket],
                tables |-> [k \in {KeyOf(t) : t \in 1..NRegTables} |->
                              LET t == CHOOSE u \in 1..NRegTables : KeyOf(u) = k
                              IN  [namespace |-> tables[t].namespace,
                                   table |-> tables[t].table,
                                   sync |-> syncs[t],
                                   register |-> regs[t]]]]
    \* the last table has its metadata at the destination, or has none
    /\ src = <<>>
    /\ dst \in {Trees(NRegTables), Trees(NRegTables - 1)}
    /\ faults = MaxFaults
    /\ state = <<>>
    /\ x_pc = "idle" /\ x_flags = <<>> /\ x_reg = <<>> /\ x_registered = 0
    /\ x_failed = 0 /\ x_start = <<>> /\ x_done = <<>>
    /\ PlanIdle /\ XferIdle /\ RwIdle /\ SyncLocalsIdle /\ GhostIdle
    /\ RegRestIdle

NextRegister ==
    \/ RegStart \/ RegFindFail \/ RegCrash \/ RegNoMetadata \/ RegSkip
    \/ RegDone \/ RegFail \/ RegSave

SpecRegister == InitRegister /\ [][NextRegister]_vars

-----------------------------------------------------------------------------
(* common.py: save_state and load_state on the state file *)

DocChunks == 2

\* the states a command may save: the number of tables recorded
FileStates == {0, 1, 2}

\* json.dumps(state, indent=2) + "\n": the text, in the pieces it reaches the
\* disk in; the last piece closes the document
dumps(st) == [i \in 1..DocChunks |-> <<st, i>>]

\* json.loads: the state a text is the document of, <<>> when it is none
loads(text) ==
    IF \E st \in FileStates : dumps(st) = text
    THEN <<CHOOSE st \in FileStates : dumps(st) = text>>
    ELSE <<>>

Bit(d, i) == (d \div Pow2(i)) % 2

\* the octal digit d with the bits of u cleared
Masked(d, u) ==
    Bit(d, 0) * (1 - Bit(u, 0)) + 2 * Bit(d, 1) * (1 - Bit(u, 1))
      + 4 * Bit(d, 2) * (1 - Bit(u, 2))

\* open(path, "w") creating the file: 0666 & ~umask
CreateMode(umask) == [i \in 1..3 |-> Masked(6, umask[i])]

\* line 54: 0o600
OwnerOnly == <<6, 0, 0>>

Umasks == {<<0, 2, 2>>, <<0, 0, 2>>, <<0, 7, 7>>}

fileFrame == <<mode, coreVars, fileRest>>

\* save_state is called: lines 50-52
SaveBegin ==
    /\ f_pc \in {"idle", "crashed"}
    /\ \E st \in FileStates : f_new' = <<st>>
    /\ f_old' = IF f_exists THEN <<f_text>> ELSE <<>>
    /\ f_pc' = "open"
    /\ UNCHANGED <<fileFrame, f_exists, f_text, f_mode, f_umask>>

\* line 53, path.write_text: the file is opened for writing, which creates
\* it or empties it
SaveOpen ==
    /\ f_pc = "open"
    /\ f_exists' = TRUE
    /\ f_text' = <<>>
    /\ f_mode' = IF f_exists THEN f_mode ELSE CreateMode(f_umask)
    /\ f_pc' = "write"
    /\ UNCHANGED <<fileFrame, f_umask, f_old, f_new>>

\* line 53: the next piece of the text reaches the file
SaveWrite ==
    /\ f_pc = "write"
    /\ Len(f_text) < DocChunks
    /\ f_text' = Append(f_text, dumps(f_new[1])[Len(f_text) + 1])
    /\ UNCHANGED <<fileFrame, f_pc, f_exists, f_mode, f_umask, f_old, f_new>>

\* line 53: the file is closed
SaveClose ==
    /\ f_pc = "write"
    /\ Len(f_text) = DocChunks
    /\ f_pc' = "chmod"
    /\ UNCHANGED <<fileFrame, f_exists, f_text, f_mode, f_umask, f_old, f_new>>

\* line 54: path.chmod(0o600); save_state returns
SaveChmod ==
    /\ f_pc = "chmod"
    /\ f_mode' = OwnerOnly
    /\ f_pc' = "idle"
    /\ UNCHANGED <<fileFrame, f_exists, f_text, f_umask, f_old, f_new>>

\* the process is interrupted during save_state
SaveInterrupt ==
    /\ f_pc \in {"open", "write", "chmod"}
    /\ f_pc' = "crashed"
    /\ UNCHANGED <<fileFrame, f_exists, f_text, f_mode, f_umask, f_old, f_new>>

-----------------------------------------------------------------------------
(* Specification SpecFile: saves of the state file, one after another *)

InitFile ==
    /\ mode = "file"
    /\ f_umask \in Umasks
    /\ f_pc = "idle" /\ f_exists = FALSE /\ f_text = <<>> /\ f_mode = <<>>
    /\ f_old = <<>> /\ f_new = <<>>
    /\ CoreIdle /\ FileRestIdle

NextFile ==
    \/ SaveBegin \/ SaveOpen \/ SaveWrite \/ SaveClose \/ SaveChmod
    \/ SaveInterrupt

SpecFile == InitFile /\ [][NextFile]_vars

-----------------------------------------------------------------------------
(* sync.py: two sync runs at once, each over the tables its discovery      *)
(* returned, sharing one state file                                        *)

Runs == {1, 2}

concFrame == <<mode, planVars, xferVars, rwVars, ghostVars, syncLocals,
               concRest, src, dst, faults, tables, state>>

\* lines 236 and 280: the run loads the state file, once
ConcLoad(r) ==
    /\ c_pc[r] = "start"
    /\ c_state' = [c_state EXCEPT ![r] = persisted]
    /\ c_pc' = [c_pc EXCEPT ![r] = "loop"]
    /\ UNCHANGED <<concFrame, persisted, c_todo, c_log>>

\* lines 328-341: the run inserts the record of its next table if new, writes
\* in_progress, and saves its state dict as the state file
ConcMark(r) ==
    /\ c_pc[r] = "loop" /\ c_todo[r] # <<>>
    /\ LET t == Head(c_todo[r])
           withRec == SetDefault(c_state[r].tables, KeyOf(t), NewRecord(t))
           marked == [withRec EXCEPT ![KeyOf(t)].sync = InProgressRec]
       IN  /\ c_state' = [c_state EXCEPT ![r].tables = marked]
           /\ persisted' = c_state'[r]
    /\ c_pc' = [c_pc EXCEPT ![r] = "marked"]
    /\ UNCHANGED <<concFrame, c_todo, c_log>>

\* lines 354-380: the table is synced or fails; the run stores the result
\* and saves its state dict as the state file
ConcFinal(r) ==
    /\ c_pc[r] = "marked"
    /\ \E result \in {SyncedRec(1, 1), FailedRec(0, 0, <<1, "ClientError">>)} :
          LET key == KeyOf(Head(c_todo[r]))
          IN  /\ c_state' = [c_state EXCEPT ![r].tables[key].sync = result]
              /\ persisted' = c_state'[r]
              /\ c_log' = [c_log EXCEPT ![r] =
                              Append(@, [key |-> key, result |-> result])]
    /\ c_todo' = [c_todo EXCEPT ![r] = Tail(@)]
    /\ c_pc' = [c_pc EXCEPT ![r] = "loop"]
    /\ UNCHANGED concFrame

\* lines 387-395: the run has no table left
ConcEnd(r) ==
    /\ c_pc[r] = "loop" /\ c_todo[r] = <<>>
    /\ c_pc' = [c_pc EXCEPT ![r] = "done"]
    /\ UNCHANGED <<concFrame, persisted, c_state, c_todo, c_log>>

-----------------------------------------------------------------------------
(* Specification SpecConc: two concurrent sync runs on disjoint tables *)

InitConc ==
    /\ mode = "conc"
    /\ tables = [i \in 1..NTables |->
                  [namespace |-> <<"a", "-", "b">>, table |-> <<Letters[i]>>]]
    \* the state file has no table yet, or the records an earlier run left
    /\ \E old \in {{}, 1..NTables} :
          persisted = [aws |-> [bucket |-> DstBucket],
                       tables |-> [k \in {KeyOf(t) : t \in old} |->
                          LET t == CHOOSE u \in old : KeyOf(u) = k
                          IN  [NewRecord(t) EXCEPT
                                 !.sync = FailedRec(0, 0, <<1, "Other">>)]]]
    \* the first run has all the tables but the last, the second run the last
    /\ c_todo = <<[i \in 1..(NTables - 1) |-> i], <<NTables>>>>
    /\ c_pc = <<"start", "start">>
    /\ c_state = <<<<>>, <<>>>>
    /\ c_log = <<<<>>, <<>>>>
    /\ src = <<>> /\ dst = <<>> /\ faults = 0 /\ state = <<>>
    /\ PlanIdle /\ XferIdle /\ RwIdle /\ SyncLocalsIdle /\ GhostIdle
    /\ ConcRestIdle

NextConc ==
    \E r \in Runs : ConcLoad(r) \/ ConcMark(r) \/ ConcFinal(r) \/ ConcEnd(r)

SpecConc == InitConc /\ [][NextConc]_vars

-----------------------------------------------------------------------------
(* inventory.py _discover_tables and the selection of sync.py (SpecDisc)  *)
(* The state file holds no table record: every discovered table is        *)
(* pending.                                                                *)

NNamespaces == 2
MaxTablesPerNs == 2

\* the tables of a catalog, <<namespace, index>>
CatalogTables(c) ==
    {x \in (DOMAIN c) \X (1..MaxTablesPerNs) : x[2] <= c[x[1]]}

Catalogs == [1..NNamespaces -> 0..MaxTablesPerNs]

\* list(range): the elements lo..hi in order
RangeSeq(lo, hi) == [i \in 1..(hi - lo + 1) |-> lo + i - 1]

discFrame == <<mode, coreVars, discRest, d_catalog, d_bad>>

\* line 111: client.list_namespaces() returns
DiscListNamespaces ==
    /\ d_pc = "init"
    /\ ~d_bad.namespaces
    /\ d_ns' = RangeSeq(1, NNamespaces)
    /\ d_pc' = "walk"
    /\ UNCHANGED <<discFrame, d_idents, d_results, d_actionable, d_noted>>

\* line 111: client.list_namespaces() raises, outside any handler
DiscListNamespacesFail ==
    /\ d_pc = "init"
    /\ d_bad.namespaces
    /\ d_pc' = "raised"
    /\ UNCHANGED <<discFrame, d_ns, d_idents, d_results, d_actionable, d_noted>>

\* line 113: client.list_tables(ns_name) returns
DiscListTables ==
    /\ d_pc = "walk" /\ d_idents = <<>> /\ d_ns # <<>>
    /\ Head(d_ns) \notin d_bad.listing
    /\ d_idents' = [i \in 1..d_catalog[Head(d_ns)] |-> <<Head(d_ns), i>>]
    /\ d_ns' = Tail(d_ns)
    /\ UNCHANGED <<discFrame, d_pc, d_results, d_actionable, d_noted>>

\* line 113: client.list_tables(ns_name) raises, outside any handler
DiscListTablesFail ==
    /\ d_pc = "walk" /\ d_idents = <<>> /\ d_ns # <<>>
    /\ Head(d_ns) \in d_bad.listing
    /\ d_pc' = "raised"
    /\ UNCHANGED <<discFrame, d_ns, d_idents, d_results, d_actionable, d_noted>>

\* lines 116-125: load_table returns, the result has schema and location
DiscLoadTable ==
    /\ d_pc = "walk" /\ d_idents # <<>>
    /\ Head(d_idents) \notin d_bad.loading
    /\ d_results' = Append(d_results, [namespace |-> Head(d_idents)[1],
                                       table |-> Head(d_idents),
                                       error |-> FALSE])
    /\ d_idents' = Tail(d_idents)
    /\ UNCHANGED <<discFrame, d_pc, d_ns, d_actionable, d_noted>>

\* lines 126-132: load_table raises, the result has namespace, table, error
DiscLoadTableFail ==
    /\ d_pc = "walk" /\ d_idents # <<>>
    /\ Head(d_idents) \in d_bad.loading
    /\ d_results' = Append(d_results, [namespace |-> Head(d_idents)[1],
                                       table |-> Head(d_idents),
                                       error |-> TRUE])
    /\ d_idents' = Tail(d_idents)
    /\ UNCHANGED <<discFrame, d_pc, d_ns, d_actionable, d_noted>>

\* line 133: return results
DiscReturn ==
    /\ d_pc = "walk" /\ d_idents = <<>> /\ d_ns = <<>>
    /\ d_pc' = "discovered"
    /\ UNCHANGED <<discFrame, d_ns, d_idents, d_results, d_actionable, d_noted>>

\* sync.py lines 263-264: "Cannot discover tables", the command ends
DiscAbort ==
    /\ d_pc = "raised"
    /\ d_pc' = "aborted"
    /\ UNCHANGED <<discFrame, d_ns, d_idents, d_results, d_actionable, d_noted>>

\* sync.py lines 266-268: no tables found
DiscNoTables ==
    /\ d_pc = "discovered" /\ d_results = <<>>
    /\ d_pc' = "nothing"
    /\ UNCHANGED <<discFrame, d_ns, d_idents, d_results, d_actionable, d_noted>>

\* sync.py lines 270-291: warn about the tables with an error; every result
\* with a namespace and a table whose status is pending is actionable
DiscSelect ==
    /\ d_pc = "discovered" /\ d_results # <<>>
    /\ d_noted' = {d_results[i].table : i \in {j \in DOMAIN d_results :
                                                 d_results[j].error}}
    /\ d_actionable' = [i \in DOMAIN d_results |-> d_results[i].table]
    /\ d_pc' = "selected"
    /\ UNCHANGED <<discFrame, d_ns, d_idents, d_results>>

InitDisc ==
    /\ mode = "disc"
    /\ d_catalog \in Catalogs
    /\ d_bad \in [namespaces : BOOLEAN,
                  listing : SUBSET (1..NNamespaces),
                  loading : SUBSET CatalogTables(d_catalog)]
    /\ d_pc = "init" /\ d_ns = <<>> /\ d_idents = <<>> /\ d_results = <<>>
    /\ d_actionable = <<>> /\ d_noted = {}
    /\ CoreIdle /\ DiscRestIdle

NextDisc ==
    \/ DiscListNamespaces \/ DiscListNamespacesFail
    \/ DiscListTables \/ DiscListTablesFail
    \/ DiscLoadTable \/ DiscLoadTableFail
    \/ DiscReturn \/ DiscAbort \/ DiscNoTables \/ DiscSelect

SpecDisc == InitDisc /\ [][NextDisc]_vars

-----------------------------------------------------------------------------
(* rewrite.py _replace_prefix on arbitrary strings (SpecPref)             *)

MaxPrefixLen == 2
MaxValueLen == 3
PrefixChars == {"a", "b"}

Strings(n) == UNION {SeqsOfLen(PrefixChars, k) : k \in 0..n}

\* the first call of _replace_prefix(value, src, dst)
PrefOnce ==
    /\ q_pc = "init"
    /\ q_once' = replace_prefix(q_value, q_src, q_dst)
    /\ q_pc' = "once"
    /\ UNCHANGED <<mode, coreVars, prefRest, q_value, q_src, q_dst, q_twice>>

\* the second call, on the result of the first, with the same src and dst
PrefTwice ==
    /\ q_pc = "once"
    /\ q_twice' = replace_prefix(q_once, q_src, q_dst)
    /\ q_pc' = "twice"
    /\ UNCHANGED <<mode, coreVars, prefRest, q_value, q_src, q_dst, q_once>>

InitPref ==
    /\ mode = "pref"
    /\ q_value \in Strings(MaxValueLen)
    /\ q_src \in Strings(MaxPrefixLen)
    /\ q_dst \in Strings(MaxPrefixLen)
    /\ q_pc = "init" /\ q_once = <<>> /\ q_twice = <<>>
    /\ CoreIdle /\ PrefRestIdle

NextPref == PrefOnce \/ PrefTwice

SpecPref == InitPref /\ [][NextPref]_vars

-----------------------------------------------------------------------------
(* Specification SpecRerun: rewrite_table_paths, then the same call again  *)
(* on what the first call left                                             *)

\* lines 151-175 again, with the same prefixes: the operator re-runs the
\* rewrite after the first call returned or raised
RwRerun ==
    /\ mode = "rewrite"
    /\ r_pc \in {"returned", "raised"}
    /\ rr_run = 0
    /\ rr_run' = 1 /\ rr_init' = r_before /\ rr_faults' = faults
    /\ r_pc' = "find"
    /\ r_meta' = <<>> /\ r_ml' = <<>> /\ r_m' = <<>> /\ r_count' = 0
    /\ r_before' = dst /\ r_skipped' = {} /\ r_written' = <<>>
    /\ UNCHANGED <<mode, planVars, xferVars, storeVars, syncVars, ghostVars,
                   rerunRest, r_tbl>>

NextRerun == NextRewrite \/ RwRerun

SpecRerun == InitRewrite /\ [][NextRerun]_vars

-----------------------------------------------------------------------------
(* Specification SpecGrow: runs of the sync command, with objects added    *)
(* to the source bucket between the runs                                   *)

MaxAdded == 1

\* the key of the data file the writer adds to table t
AddedKey(t) == <<t, DataKey(t, 1)[2] + 1>>

\* the local writer appends to a table between two runs: a new data file
\* under the table's prefix in the source bucket
SourceGrows ==
    /\ mode = "sync"
    /\ s_pc \in Ended
    /\ Cardinality({t \in 1..NTables : AddedKey(t) \in DOMAIN src}) < MaxAdded
    /\ \E t \in 1..NTables :
          /\ MetaKey(t) \in DOMAIN src
          /\ AddedKey(t) \notin DOMAIN src
          /\ src' = Put(src, AddedKey(t), [kind |-> "data"])
    /\ UNCHANGED <<auxVars, mode, planVars, xferVars, dst, faults, rwVars,
                   syncVars, ghostVars>>

NextGrow == NextSync \/ SourceGrows

SpecGrow == InitSync /\ [][NextGrow]_vars

-----------------------------------------------------------------------------
(* orchestrators.py: clear and cleanup (SpecState, with sync and register) *)

\* the state files sync and register runs can leave for the first n tables
StateFiles(n) ==
    {[aws |-> [bucket |-> DstBucket],
      tables |-> [k \in {KeyOf(t) : t \in 1..n} |->
                    LET t == CHOOSE u \in 1..n : KeyOf(u) = k
                    IN  [namespace |-> tables[t].namespace,
                         table |-> tables[t].table,
                         sync |-> syncs[t],
                         register |-> regs[t]]]] :
        syncs \in [1..n -> SyncRecords],
        regs \in [1..n -> UNION {RegisterRecords(t, InProgressRec) :
                                  t \in 1..n}]}

\* the state file json.loads accepts as {}: no section at all
EmptyDocument == <<>>

OrchEnded == {"idle", "done", "aborted"}

orchFrame == <<mode, planVars, xferVars, rwVars, ghostVars, syncLocals,
               orchRest, src, tables>>

\* the recorded tables, in the order of the dict
RecordedTables(doc) ==
    SelectSeq([i \in 1..Len(tables) |-> i],
              LAMBDA t : KeyOf(t) \in DOMAIN doc.tables)

\* mutant: only the sync sub-records are reset
ResetRecordsSyncOnly(tables_state) ==
    [k \in DOMAIN tables_state |->
        [tables_state[k] EXCEPT !.sync = PendingRec]]

\* orchestrators.py lines 265-267
ResetRecords(tables_state) ==
    [k \in DOMAIN tables_state |->
        [tables_state[k] EXCEPT !.sync = PendingRec,
                                !.register = [status |-> "pending"]]]

\* _clear_s3_objects, one table: the store without the objects under its prefix
WithoutTable(store, t) == [k \in {x \in DOMAIN store : x[1] # t} |-> store[k]]

\* clear, lines 180-232: load the state; no "aws" section raises, no table
\* or --dry-run returns with nothing changed
ClearStart ==
    /\ o_pc \in OrchEnded
    /\ o_cmd' = "clear"
    /\ \E dry \in BOOLEAN :
          /\ o_flags' = [dry_run |-> dry, force |-> FALSE]
          /\ IF "aws" \notin DOMAIN persisted
             THEN o_pc' = "aborted" /\ state' = <<>>
             ELSE IF persisted.tables = <<>> \/ dry
             THEN o_pc' = "done" /\ state' = <<>>
             ELSE o_pc' = "preflight" /\ state' = persisted
    /\ o_todo' = <<>>
    /\ o_start' = [persisted |-> persisted, dst |-> dst]
    /\ UNCHANGED <<orchFrame, persisted, dst, faults>>

\* cleanup, lines 299-352: load the state; nothing recorded or --dry-run
\* returns; with tables recorded, clear is invoked first (lines 355-358)
CleanupStart ==
    /\ o_pc \in OrchEnded
    /\ o_cmd' = "cleanup"
    /\ \E f \in [dry_run : BOOLEAN, force : BOOLEAN] :
          /\ o_flags' = f
          /\ IF "aws" \notin DOMAIN persisted
             THEN o_pc' = "done" /\ state' = <<>>
             ELSE IF f.dry_run
             THEN o_pc' = "done" /\ state' = <<>>
             ELSE IF persisted.tables = <<>>
             THEN o_pc' = "infra" /\ state' = persisted
             ELSE o_pc' = "preflight" /\ state' = persisted
    /\ o_todo' = <<>>
    /\ o_start' = [persisted |-> persisted, dst |-> dst]
    /\ UNCHANGED <<orchFrame, persisted, dst, faults>>

\* an exception leaves the command: what it held in memory is lost
OrchAbort ==
    /\ faults > 0
    /\ faults' = faults - 1
    /\ o_pc' = "aborted"
    /\ state' = <<>> /\ o_todo' = <<>>
    /\ UNCHANGED <<orchFrame, persisted, dst, o_cmd, o_flags, o_start>>

\* clear, lines 239-241: the credentials are valid
ClearPreflight ==
    /\ o_pc = "preflight"
    /\ o_pc' = "delete"
    /\ o_todo' = RecordedTables(state)
    /\ UNCHANGED <<orchFrame, persisted, state, dst, faults, o_cmd, o_flags,
                   o_start>>

\* clear, line 240 or 241 raises
ClearPreflightFail == o_pc = "preflight" /\ OrchAbort

\* _clear_s3_objects, lines 137-161: the objects of one recorded table are
\* listed and deleted
ClearDeleteObjects ==
    /\ o_pc = "delete" /\ o_todo # <<>>
    /\ dst' = WithoutTable(dst, Head(o_todo))
    /\ o_todo' = Tail(o_todo)
    /\ UNCHANGED <<orchFrame, persisted, state, faults, o_pc, o_cmd, o_flags,
                   o_start>>

\* _clear_s3_objects, line 146 or 158 raises
ClearDeleteFail == o_pc = "delete" /\ o_todo # <<>> /\ OrchAbort

\* clear, lines 248-269: the registered tables are dropped (a failed drop is
\* reported and passed over), every record is reset, the state is saved
ClearReset ==
    /\ o_pc = "delete" /\ o_todo = <<>>
    /\ state' = [state EXCEPT !.tables = ResetRecords(@)]
    /\ persisted' = state'
    /\ o_pc' = IF o_cmd = "clear" THEN "done" ELSE "infra"
    /\ UNCHANGED <<orchFrame, dst, faults, o_cmd, o_flags, o_todo, o_start>>

\* cleanup, lines 360-427: the Snowflake and IAM resources are removed
\* (their failures are reported and passed over), the bucket is deleted
\* with --force unless that fails, the state file is overwritten with {}
CleanupInfra ==
    /\ o_pc = "infra"
    /\ dst' \in IF o_flags.force THEN {<<>>, dst} ELSE {dst}
    /\ persisted' = EmptyDocument
    /\ state' = <<>>
    /\ o_pc' = "done"
    /\ UNCHANGED <<orchFrame, faults, o_cmd, o_flags, o_todo, o_start>>

\* cleanup, line 397 raises: preflight_aws_check
CleanupPreflightFail == o_pc = "infra" /\ OrchAbort

InitOrch ==
    /\ mode = "orch"
    /\ tables = [i \in 1..NRegTables |->
                  [namespace |-> <<"a", "-", "b">>, table |-> <<Letters[i]>>]]
    /\ persisted \in StateFiles(NRegTables) \cup
                     {[aws |-> [bucket |-> DstBucket], tables |-> <<>>]}
    /\ src = <<>>
    /\ dst \in {Trees(NRegTables), Trees(NRegTables - 1)}
    /\ faults = MaxFaults
    /\ state = <<>>
    /\ o_pc = "idle" /\ o_cmd = "" /\ o_flags = <<>> /\ o_todo = <<>>
    /\ o_start = <<>>
    /\ PlanIdle /\ XferIdle /\ RwIdle /\ SyncLocalsIdle /\ GhostIdle
    /\ OrchRestIdle

NextOrch ==
    \/ ClearStart \/ CleanupStart
    \/ ClearPreflight \/ ClearPreflightFail
    \/ ClearDeleteObjects \/ ClearDeleteFail \/ ClearReset
    \/ CleanupInfra \/ CleanupPreflightFail

\* any of the commands that write the state file, on a state file a
\* previous command left
InitState == InitSync \/ InitRegister \/ InitOrch

NextState == NextSync \/ NextRegister \/ NextOrch

SpecState == InitState /\ [][NextState]_vars

-----------------------------------------------------------------------------
(* sync.py: a sync run on a state file with records (SpecResync) *)

\* the record of the first table as an earlier sync and register left it;
\* the namespace is as discovered now, or is one with the same state key
PriorRecords ==
    {[namespace |-> ns, table |-> tables[1].table, sync |-> s, register |-> r] :
        ns \in {tables[1].namespace, <<"a", "_", "b">>},
        s \in {SyncedRec(1, 1), FailedRec(0, 0, <<1, "ClientError">>)},
        r \in {RegFailedRec,
               RegDoneRec(sf_table_name(tables[1].namespace, tables[1].table),
                          MetaKey(1))}}

InitResync ==
    /\ mode = "sync"
    /\ tables = [i \in 1..NTables |->
                  [namespace |-> <<"a", "-", "b">>, table |-> <<Letters[i]>>]]
    \* the last table has objects in the source bucket, or has none
    /\ src \in {Trees(NTables), Trees(NTables - 1)}
    /\ \E rec \in PriorRecords :
          /\ persisted = [aws |-> [bucket |-> DstBucket],
                          tables |-> [k \in {KeyOf(1)} |-> rec]]
          /\ dst = IF rec.sync.status = "synced" THEN Trees(1) ELSE <<>>
    /\ faults = MaxFaults
    /\ state = <<>>
    /\ s_pc = "idle" /\ s_end = "" /\ s_flags = NoFlags
    /\ s_actionable = <<>> /\ s_i = 0 /\ s_plan = <<>>
    /\ s_transferred = 0 /\ s_total_bytes = 0 /\ s_result = <<>>
    /\ s_synced = 0 /\ s_failed = 0
    /\ g_start = <<>> /\ g_log = <<>> /\ g_prev = <<>> /\ g_cur = NoCur
    /\ g_crash = NoCrash /\ g_ops = {} /\ g_calls = {}
    /\ PlanIdle /\ XferIdle /\ RwIdle /\ AuxIdle

SpecResync == InitResync /\ [][NextSync]_vars

-----------------------------------------------------------------------------
(* rewrite.py: the three rewriters on whole documents (SpecDoc)             *)
(*                                                                         *)
(* A JSON object or an Avro record is a function from field names to       *)
(* values; None and the empty string are both <<>>.                        *)

MaxRecords == 2

\* the values a path field can hold
DocUris ==
    {<<>>, SrcUri(<<1, 1>>), <<"s3://", OtherBucket, <<1, 1>>>>}

UpToLen(S, n) == UNION {SeqsOfLen(S, k) : k \in 0..n}

\* manifest-list records: with a manifest_path or without one
ListRecords ==
    {("manifest_path" :> u) @@ ("manifest_length" :> 1) : u \in DocUris}
    \cup {"manifest_length" :> 1}

\* data_file structs: with or without file_path and referenced_data_file
DataFiles ==
    {"record_count" :> 1}
    \cup {("file_path" :> u) @@ ("record_count" :> 1) : u \in DocUris}
    \cup {("file_path" :> u) @@ ("referenced_data_file" :> v)
             @@ ("record_count" :> 1) : u \in DocUris, v \in DocUris}

\* manifest records: data_file a struct, None, or not a field
ManifestRecords ==
    {("status" :> 1) @@ ("data_file" :> df) : df \in DataFiles \cup {<<>>}}
    \cup {"status" :> 1}

AvroFiles ==
    [kind : {"mlist"}, schema : {"v1", "v2"}, codec : {"null", "deflate"},
     records : UpToLen(ListRecords, MaxRecords)]
    \cup
    [kind : {"manifest"}, schema : {"v1", "v2"}, codec : {"null", "deflate"},
     records : UpToLen(ManifestRecords, MaxRecords)]

Snapshots ==
    {("manifest-list" :> u) @@ ("snapshot-id" :> 1) : u \in DocUris}
    \cup {"snapshot-id" :> 1}

LogEntries ==
    {("metadata-file" :> u) @@ ("timestamp-ms" :> 1) : u \in DocUris}
    \cup {"timestamp-ms" :> 1}

\* the function with the fields of part added to those of d
WithFields(d, part) == part @@ d

MetadataDocs ==
    {WithFields(WithFields(WithFields("format-version" :> 2, loc), snaps), log) :
        loc \in {<<>>} \cup {"location" :> u : u \in DocUris},
        snaps \in {<<>>} \cup {"snapshots" :> s :
                                 s \in UpToLen(Snapshots, MaxRecords)},
        log \in {<<>>} \cup {"metadata-log" :> l : l \in UpToLen(LogEntries, 1)}}

JsonFiles == [kind : {"metadata"}, indent : {0, 2}, data : MetadataDocs]

\* dict[key] = value for a key the dict has
SetItem(d, k, v) == [d EXCEPT ![k] = v]

\* rewrite.py: _rewrite_metadata_json, on the whole document
rewrite_metadata_json_doc(data, src_, dst_) ==
    LET d1 == IF "location" \in DOMAIN data
              THEN SetItem(data, "location",
                           replace_prefix(data["location"], src_, dst_))
              ELSE data
        snap(s) == IF "manifest-list" \in DOMAIN s
                   THEN SetItem(s, "manifest-list",
                                replace_prefix(s["manifest-list"], src_, dst_))
                   ELSE s
        d2 == IF "snapshots" \in DOMAIN d1
              THEN SetItem(d1, "snapshots",
                           [i \in DOMAIN d1["snapshots"] |->
                               snap(d1["snapshots"][i])])
              ELSE d1
        entry(e) == IF "metadata-file" \in DOMAIN e
                    THEN SetItem(e, "metadata-file",
                                 replace_prefix(e["metadata-file"], src_, dst_))
                    ELSE e
    IN  IF "metadata-log" \in DOMAIN d2
        THEN SetItem(d2, "metadata-log",
                     [i \in DOMAIN d2["metadata-log"] |->
                         entry(d2["metadata-log"][i])])
        ELSE d2

\* rewrite.py: _rewrite_manifest_list, on whole records
rewrite_manifest_list_recs(records, src_, dst_) ==
    [i \in DOMAIN records |->
        IF "manifest_path" \in DOMAIN records[i]
        THEN SetItem(records[i], "manifest_path",
                     replace_prefix(records[i]["manifest_path"], src_, dst_))
        ELSE records[i]]

\* mutant: the data_file written back holds the path fields only
rewrite_manifest_recs_paths_only(records, src_, dst_) ==
    [i \in DOMAIN records |->
        IF "data_file" \in DOMAIN records[i] /\ records[i]["data_file"] # <<>>
           /\ "file_path" \in DOMAIN records[i]["data_file"]
        THEN SetItem(records[i], "data_file",
                     "file_path" :>
                        replace_prefix(records[i]["data_file"]["file_path"],
                                       src_, dst_))
        ELSE records[i]]

\* rewrite.py: _rewrite_manifest, on whole records
rewrite_manifest_recs(records, src_, dst_) ==
    [i \in DOMAIN records |->
        LET rec == records[i]
            df == IF "data_file" \in DOMAIN rec THEN rec["data_file"] ELSE <<>>
            df1 == IF "file_path" \in DOMAIN df
                   THEN SetItem(df, "file_path",
                                replace_prefix(df["file_path"], src_, dst_))
                   ELSE df
            df2 == IF "referenced_data_file" \in DOMAIN df1
                      /\ df1["referenced_data_file"] # <<>>
                   THEN SetItem(df1, "referenced_data_file",
                                replace_prefix(df1["referenced_data_file"],
                                               src_, dst_))
                   ELSE df1
        IN  IF df = <<>> THEN rec ELSE SetItem(rec, "data_file", df2)]

\* rewrite.py: _s3_get_avro and _s3_put_avro; fastavro.writer is called
\* without a codec and writes uncompressed blocks
s3_get_avro(obj) == <<obj.schema, obj.records>>
s3_put_avro(obj, schema, records) ==
    [kind |-> obj.kind, schema |-> schema, codec |-> "null",
     records |-> records]

\* rewrite.py: _s3_get_json and _s3_put_json (json.dumps with indent=2)
s3_get_json(obj) == obj.data
s3_put_json(obj, data) == [kind |-> obj.kind, indent |-> 2, data |-> data]

\* rewrite_table_paths lines 184-193 and 225: metadata.json
DocMetadata ==
    /\ w_pc = "read" /\ w_key = "metadata"
    /\ w_out' = s3_put_json(w_in, rewrite_metadata_json_doc(
                                     s3_get_json(w_in),
                                     source_prefix, target_prefix))
    /\ w_pc' = "written"
    /\ UNCHANGED <<mode, coreVars, docRest, w_key, w_in>>

\* rewrite_table_paths lines 199-208: one manifest list
DocManifestList ==
    /\ w_pc = "read" /\ w_key = "mlist"
    /\ LET got == s3_get_avro(w_in)
       IN  w_out' = s3_put_avro(w_in, got[1],
                                rewrite_manifest_list_recs(
                                   got[2], source_prefix, target_prefix))
    /\ w_pc' = "written"
    /\ UNCHANGED <<mode, coreVars, docRest, w_key, w_in>>

\* rewrite_table_paths lines 215-222: one manifest
DocManifest ==
    /\ w_pc = "read" /\ w_key = "manifest"
    /\ LET got == s3_get_avro(w_in)
       IN  w_out' = s3_put_avro(w_in, got[1],
                                rewrite_manifest_recs(
                                   got[2], source_prefix, target_prefix))
    /\ w_pc' = "written"
    /\ UNCHANGED <<mode, coreVars, docRest, w_key, w_in>>

InitDoc ==
    /\ mode = "doc"
    /\ w_in \in AvroFiles \cup JsonFiles
    /\ w_key = w_in.kind
    /\ w_pc = "read" /\ w_out = <<>>
    /\ CoreIdle /\ DocRestIdle

NextDoc == DocMetadata \/ DocManifestList \/ DocManifest

SpecDoc == InitDoc /\ [][NextDoc]_vars

-----------------------------------------------------------------------------
(* sync and register runs, one command after another, on one state file   *)
(* (SpecMigrate)                                                          *)

\* tables discovery returns in SpecMigrate
NMigTables == 1

RunEnded == {"done", "aborted", "crashed"}

\* the sync command has ended; the register command is started next
ThenRegister ==
    /\ mode = "sync" /\ s_pc \in RunEnded
    /\ mode' = "register"
    /\ s_pc' = "off" /\ s_end' = "" /\ s_flags' = NoFlags
    /\ s_actionable' = <<>> /\ s_i' = 0 /\ s_plan' = <<>>
    /\ s_transferred' = 0 /\ s_total_bytes' = 0 /\ s_result' = <<>>
    /\ s_synced' = 0 /\ s_failed' = 0
    /\ g_start' = <<>> /\ g_log' = <<>> /\ g_prev' = <<>> /\ g_cur' = NoCur
    /\ g_crash' = NoCrash /\ g_ops' = {} /\ g_calls' = {}
    /\ state' = <<>>
    /\ x_pc' = "idle"
    /\ UNCHANGED <<planVars, xferVars, rwVars, storeVars, tables, persisted,
                   regRest, x_flags, x_reg, x_registered, x_failed, x_start,
                   x_done>>

\* the register command has ended; the sync command is started next
ThenSync ==
    /\ mode = "register" /\ x_pc \in RunEnded
    /\ mode' = "sync"
    /\ x_pc' = "off" /\ x_flags' = <<>> /\ x_reg' = <<>> /\ x_registered' = 0
    /\ x_failed' = 0 /\ x_start' = <<>> /\ x_done' = <<>>
    /\ state' = <<>>
    /\ s_pc' = "idle"
    /\ UNCHANGED <<planVars, xferVars, rwVars, storeVars, ghostVars, tables,
                   persisted, regRest, s_end, s_flags, s_actionable, s_i,
                   s_plan, s_transferred, s_total_bytes, s_result, s_synced,
                   s_failed>>

InitMigrate ==
    /\ mode = "sync"
    /\ tables = [i \in 1..NMigTables |->
                  [namespace |-> <<"a", "-", "b">>, table |-> <<Letters[i]>>]]
    \* the last table has objects in the source bucket, or has none
    /\ src \in {Trees(NMigTables), Trees(NMigTables - 1)}
    /\ dst = <<>>
    /\ faults = MaxFaults
    /\ persisted = [aws |-> [bucket |-> DstBucket], tables |-> <<>>]
    /\ state = <<>>
    /\ s_pc = "idle" /\ s_end = "" /\ s_flags = NoFlags
    /\ s_actionable = <<>> /\ s_i = 0 /\ s_plan = <<>>
    /\ s_transferred = 0 /\ s_total_bytes = 0 /\ s_result = <<>>
    /\ s_synced = 0 /\ s_failed = 0
    /\ GhostIdle
    /\ PlanIdle /\ XferIdle /\ RwIdle /\ AuxIdle

NextMigrate == NextSync \/ NextRegister \/ ThenRegister \/ ThenSync

SpecMigrate == InitMigrate /\ [][NextMigrate]_vars

-----------------------------------------------------------------------------
(* Claims about planTransfer (SpecPlan) *)

SamePairs(a, b) == Range(a) = Range(b)

\* C1: planTransfer returns exactly the source keys that are absent from the
\* destination or have a different size there (every source key with forceAll);
\* the result is ascending, duplicate-free, within the source keys, and the
\* same for every iteration order of the source listing.
C1_PlanExact ==
    p_pc = "done" =>
        /\ Range(p_plan) =
             IF p_force THEN DictKeys(p_src)
             ELSE {k \in DictKeys(p_src) :
                     k \notin DOMAIN p_dst \/ p_dst[k] # DictSize(p_src, k)}
        /\ \A i, j \in DOMAIN p_plan : i < j => p_plan[i] < p_plan[j]
        /\ Range(p_plan) \subseteq DictKeys(p_src)
        /\ \A q \in Dicts :
             SamePairs(q, p_src) =>
                 compute_transfer_plan(q, p_dst, p_force) = p_plan

\* a non-forced plan of two keys or more from a listing that is not in key
\* order, with one key skipped and one key present with another size
C1_Witness ==
    /\ p_pc = "done" /\ ~p_force
    /\ Len(p_plan) >= 2
    /\ Len(p_src) > Len(p_plan)
    /\ \E i \in 1..(Len(p_src) - 1) : p_src[i][1] > p_src[i + 1][1]
    /\ \E k \in Range(p_plan) : k \in DOMAIN p_dst

-----------------------------------------------------------------------------
(* Claims about transferObject (SpecTransfer) *)

AllTransient(env, n) == \A i \in 1..n : env[i] \in Transient

\* C8: transferObject makes at most 3 attempts: it returns the byte count at
\* the first attempt that succeeds and attempts nothing after it; when all 3
\* attempts fail with a transient error it raises the third attempt's error.
C8_AtMostThreeAttempts ==
    t_pc = "done" =>
        /\ t_res.attempts <= 3
        /\ t_res.status \in {"returned", "raised"}
        /\ \A n \in 1..3 :
             (AllTransient(t_env, n - 1) /\ t_env[n] = "ok") =>
                 /\ t_res.status = "returned"
                 /\ t_res.bytes = t_size
                 /\ t_res.attempts = n
        /\ AllTransient(t_env, 3) =>
             /\ t_res.status = "raised"
             /\ t_res.attempts = 3
             /\ t_res.error = <<t_env[3], 3>>

\* three transient failures although a fourth attempt would have succeeded
C8_Witness ==
    /\ t_pc = "done"
    /\ AllTransient(t_env, 3) /\ t_env[4] = "ok"
    /\ t_res.status = "raised" /\ t_res.attempts = 3

\* C9: when every attempt fails with a transient error the delays slept are
\* 1s, 2s and 4s in that order, 7s in total.
C9_DelaysOneTwoFour ==
    (t_pc = "done" /\ AllTransient(t_env, 3)) =>
        /\ t_res.delays = <<1, 2, 4>>
        /\ SumSeq(t_res.delays) = 7

-----------------------------------------------------------------------------
(* Claims about rewrite_table_paths (SpecRewrite) *)

\* every URI of the object that began with the source prefix before the
\* rewrite begins with the destination prefix now
FileRewritten(before, after) ==
    LET b == HandledUris(before)
        a == HandledUris(after)
    IN  /\ Len(a) = Len(b)
        /\ \A i \in DOMAIN b :
              StartsWith(b[i], source_prefix) => StartsWith(a[i], target_prefix)

\* the destination objects a URI of the tree refers to after migration
Denotes(uri) ==
    IF /\ Len(uri) = 3
       /\ \/ StartsWith(uri, source_prefix)
          \/ uri[2] = DstBucket /\ uri[1] \in {"s3://", "s3a://"}
    THEN {uri[3]} ELSE {}

RefLists(store, t) ==
    IF MetaKey(t) \in DOMAIN store
    THEN {k \in DOMAIN store :
            \E u \in Range(store[MetaKey(t)].snapshots) : k \in Denotes(u)}
    ELSE {}

ManifestsOf(store, l) ==
    IF store[l].kind = "mlist"
    THEN {k \in DOMAIN store : \E u \in Range(store[l].paths) : k \in Denotes(u)}
    ELSE {}

RefManifests(store, t) == UNION {ManifestsOf(store, l) : l \in RefLists(store, t)}

\* the read of the file failed, or the file is a manifest that only manifest
\* lists whose read failed refer to
Skipped(k) ==
    \/ <<k>> \in r_skipped
    \/ /\ k \in RefManifests(r_before, r_tbl)
       /\ \A l \in RefLists(r_before, r_tbl) :
             k \in ManifestsOf(r_before, l) => <<l>> \in r_skipped

\* metadata.json is at the destination as this call wrote it
MetaFinal == MetaKey(r_tbl) \in Range(r_written)

\* C2 (as claimed): metadata.json is never present in its rewritten form
\* while a manifest list or manifest it references is not, also when the
\* read of a manifest list or manifest fails.
C2_MetaNeverBeforeChildren ==
    MetaFinal =>
        \A k \in RefLists(r_before, r_tbl) \cup RefManifests(r_before, r_tbl) :
            FileRewritten(r_before[k], dst[k])

\* C2 (amended): metadata.json is never present in its rewritten form while
\* a manifest list or manifest it references is neither present in its
\* rewritten form nor skipped because a read failed.
C2_MetaAfterChildrenOrSkip ==
    MetaFinal =>
        /\ r_written[Len(r_written)] = MetaKey(r_tbl)
        /\ \A k \in RefLists(r_before, r_tbl) \cup RefManifests(r_before, r_tbl) :
              \/ FileRewritten(r_before[k], dst[k]) /\ k \in Range(r_written)
              \/ Skipped(k)

\* metadata.json written after a skipped manifest and a rewritten manifest list
C2_Witness ==
    /\ MetaFinal
    /\ \E k \in RefManifests(r_before, r_tbl) :
          <<k>> \in r_skipped /\ ~FileRewritten(r_before[k], dst[k])
    /\ \E l \in RefLists(r_before, r_tbl) : l \in Range(r_written)

TreeKeys(store, t) ==
    (IF MetaKey(t) \in DOMAIN store THEN {MetaKey(t)} ELSE {})
    \cup RefLists(store, t) \cup RefManifests(store, t)

\* C3 (as claimed): whenever rewrite_table_paths returns normally, every URI
\* of the table's metadata tree that began with the source prefix begins
\* with the destination prefix.
C3_AllUrisRewritten ==
    r_pc = "returned" =>
        \A k \in TreeKeys(r_before, r_tbl) : FileRewritten(r_before[k], dst[k])

\* C3 (amended): whenever rewrite_table_paths returns normally, every URI that
\* began with the source prefix begins with the destination prefix in
\* metadata.json and in every referenced manifest list and manifest whose
\* read did not fail and that is not reachable only through a manifest list
\* whose read failed.
C3_ReadUrisRewritten ==
    r_pc = "returned" =>
        \A k \in TreeKeys(r_before, r_tbl) :
            ~Skipped(k) => FileRewritten(r_before[k], dst[k])

\* a normal return after the whole tree (metadata.json, every manifest list,
\* shared and own manifests) was rewritten
C3_Witness ==
    /\ r_pc = "returned"
    /\ r_skipped = {}
    /\ Cardinality(RefManifests(r_before, r_tbl)) > NLists
    /\ Cardinality(Range(r_written)) = Cardinality(TreeKeys(r_before, r_tbl))
    /\ dst[MetaKey(r_tbl)] # r_before[MetaKey(r_tbl)]

-----------------------------------------------------------------------------
(* Claims about the sync command (SpecSync) *)

TableCauses == {"session", "listsrc", "listdst"}

\* the records of g_log that are the last of their state key
LastOfKey(log) ==
    {i \in DOMAIN log : \A j \in DOMAIN log : j > i => log[j].key # log[i].key}

\* every table a run has finished has its result in the state file
LogPersisted(log, skip) ==
    \A i \in LastOfKey(log) :
        log[i].key \notin skip =>
            /\ log[i].key \in DOMAIN persisted.tables
            /\ persisted.tables[log[i].key].sync = log[i].result

\* C4 (as stated): an exception raised while processing one table, at any
\* step, never aborts the run: a run ends early only for what happens before
\* the first table, and no table is left in_progress by a run that has ended.
C4_TableErrorNeverAborts ==
    s_pc = "aborted" =>
        /\ s_end \notin TableCauses
        /\ \A k \in DOMAIN persisted.tables :
              persisted.tables[k].sync.status # "in_progress"

FailedEntries(log) == {i \in DOMAIN log : log[i].failed # <<>>}

\* C5: a table whose transfer failed after the retries is persisted as failed
\* with an error naming the key, the run goes on to the later tables, and the
\* summary has synced + failed = number of actionable tables, failed being
\* the number of tables whose transfer failed.  (A run that is interrupted,
\* or that another exception leaves, has no summary.)
C5_TransferFailureIsolated ==
    /\ (s_pc \notin Ended /\ g_cur.failed # <<>>) =>
          /\ s_pc = "result"
          /\ s_result.status = "failed"
          /\ s_result.error # <<>> /\ s_result.error[1] = g_cur.failed[1]
    /\ \A i \in FailedEntries(g_log) :
          /\ g_log[i].result.status = "failed"
          /\ g_log[i].result.error # <<>>
          /\ g_log[i].result.error[1] = g_log[i].failed[1]
          /\ s_pc \notin {"aborted", "crashed"} =>
                /\ s_pc \in {"loop", "done"} \cup Window
                /\ s_pc = "done" \/ s_i > i
    /\ s_pc \notin {"aborted", "crashed", "idle"} => LogPersisted(g_log, {})
    /\ (s_pc = "done" /\ s_end = "summary") =>
          /\ Len(g_log) = Len(s_actionable)
          /\ s_synced + s_failed = Len(s_actionable)
          /\ s_failed = Cardinality(FailedEntries(g_log))

\* three actionable tables, the transfer of the second failed: 2 synced, 1 failed
C5_Witness ==
    /\ s_pc = "done" /\ s_end = "summary"
    /\ Len(s_actionable) = 3
    /\ FailedEntries(g_log) = {2}
    /\ s_synced = 2 /\ s_failed = 1
    /\ persisted.tables[g_log[2].key].sync.status = "failed"
    /\ persisted.tables[g_log[3].key].sync.status = "synced"

\* the entries of a non-forced run for a table whose previous sync stopped at
\* a failing object, and whose transfers did not fail this time
Resumed(log) ==
    {i \in DOMAIN log : log[i].expect # <<>> /\ log[i].failed = <<>>}

C7_InProgressBeforeStoreOps ==
    /\ s_pc \in Window =>
          /\ CurKey \in DOMAIN persisted.tables
          /\ persisted.tables[CurKey].sync.status = "in_progress"
    /\ (s_pc = "loop" /\ ~s_flags.dry_run) => CurTable \notin g_ops
    /\ (s_pc \notin Ended /\ ~s_flags.dry_run) =>
          g_ops \subseteq {s_actionable[j] : j \in 1..s_i} \ 
                            (IF s_pc = "marked" THEN {CurTable} ELSE {})
    /\ (s_pc = "crashed" /\ g_crash.key # <<>>) =>
          /\ g_crash.key[1] \in DOMAIN persisted.tables
          /\ persisted.tables[g_crash.key[1]].sync.status = "in_progress"
          /\ LogPersisted(g_crash.log, {g_crash.key[1]})
    /\ (s_pc \notin Ended /\ g_crash.key # <<>> /\ ~s_flags.force) =>
          \E j \in DOMAIN s_actionable : KeyOf(s_actionable[j]) = g_crash.key[1]
    /\ ~(s_pc = "done" /\ g_crash.key # <<>>)

\* interrupted while the second table was under way, the first one finished;
\* the next run, not forced, has selected the interrupted table first
C7_Witness ==
    /\ s_pc = "loop" /\ s_i = 1 /\ ~s_flags.force /\ ~s_flags.dry_run
    /\ g_crash.key # <<>>
    /\ Len(g_crash.log) = 1
    /\ g_crash.log[1].result.status = "synced"
    /\ persisted.tables[g_crash.log[1].key].sync.status = "synced"
    /\ persisted.tables[g_crash.key[1]].sync.status = "in_progress"
    /\ s_actionable # <<>> /\ KeyOf(s_actionable[1]) = g_crash.key[1]

\* C10 (as stated): when the verification of the destination handle fails or
\* a store is unreachable, the run aborts with no object transferred and no
\* state record changed.
C10_AbortBeforeAnyTable ==
    (s_pc = "aborted" /\ s_end \in {"preflight"} \cup TableCauses) =>
        /\ dst = g_start.dst
        /\ persisted = g_start.persisted

-----------------------------------------------------------------------------
(* Claims about the environment of cloud sessions (SpecEnv) *)

\* C11 (as stated): every create_cloud_session call, in every command,
\* happens inside a scrubbing scope: none of the local store's AWS_*
\* variables is set when the session is built.
C11_SessionsBuiltScrubbed ==
    e_last # <<>> =>
        /\ e_last.scope
        /\ e_last.environ \cap AWS_ENV_VARS = {}

-----------------------------------------------------------------------------
(* Claims about state keys (SpecKey) *)

\* C12 (as stated): two tables with distinct (namespace, table) pairs have
\* distinct state keys, so each has its own record holding its own outcome,
\* and distinct Snowflake table names.
C12_KeysDistinct ==
    /\ table_state_key(k_tables[1].namespace, k_tables[1].table)
         # table_state_key(k_tables[2].namespace, k_tables[2].table)
    /\ sf_table_name(k_tables[1].namespace, k_tables[1].table)
         # sf_table_name(k_tables[2].namespace, k_tables[2].table)
    /\ k_pc = 3 =>
          /\ Cardinality(DOMAIN k_state) = 2
          /\ Cardinality(DOMAIN k_sf) = 2
          /\ \A i \in {1, 2} :
                LET key == table_state_key(k_tables[i].namespace,
                                           k_tables[i].table)
                IN  /\ k_state[key].namespace = k_tables[i].namespace
                    /\ k_state[key].table = k_tables[i].table
                    /\ k_state[key].sync = SyncedRec(i, i)

-----------------------------------------------------------------------------
(* Claims about the register command (SpecRegister) *)

\* the register record of key k differs from the one the run began with
RegChanged(k) ==
    \/ persisted.tables[k].register # x_start.tables[k].register
    \/ state # <<>> /\ state.tables[k].register # x_start.tables[k].register

\* C13: the register command changes a table's register record (from pending
\* or failed to done or failed) only in a step at whose start the table's
\* persisted sync.status is synced; the records of tables that are pending,
\* in_progress or failed are never modified.
C13_RegisterOnlySynced ==
    x_start # <<>> =>
        /\ \A k \in DOMAIN persisted.tables :
              RegChanged(k) =>
                 /\ x_start.tables[k].sync.status = "synced"
                 /\ persisted.tables[k].sync.status = "synced"
        /\ \A i \in DOMAIN x_done : x_done[i].sync = "synced"
        /\ \A k \in DOMAIN persisted.tables :
              persisted.tables[k].sync = x_start.tables[k].sync

\* one table was registered and saved while the other, not synced, kept its
\* register record
C13_Witness ==
    /\ x_pc = "done" /\ x_start # <<>>
    /\ \E k1, k2 \in DOMAIN persisted.tables :
          /\ x_start.tables[k1].register.status = "pending"
          /\ persisted.tables[k1].register.status = "done"
          /\ x_start.tables[k2].sync.status \in {"pending", "in_progress", "failed"}
          /\ x_start.tables[k2].register.status = "pending"
          /\ persisted.tables[k2] = x_start.tables[k2]

-----------------------------------------------------------------------------
(* Claims about the state file (SpecFile) *)

\* C14 (as stated): whenever save_state is interrupted, the file on disk is
\* a complete document, equal to the state before the save or to the state
\* being saved.
C14_SaveAtomic ==
    f_pc = "crashed" =>
        \/ ~f_exists /\ f_old = <<>>
        \/ /\ f_exists
           /\ loads(f_text) # <<>>
           /\ \/ f_old # <<>> /\ f_text = f_old[1]
              \/ loads(f_text) = f_new

\* C15 (as stated): whenever the state file exists, also between its
\* creation and the return of save_state, its permissions are 0600.
C15_AlwaysOwnerOnly == f_exists => f_mode = OwnerOnly

\* C16 (as stated): every change of a table's status is in the state file
\* before the next table is begun, so an interruption loses at most the
\* transition of the table being processed; here for the register command.
C16_StatusWrittenBeforeNextTable ==
    /\ x_pc = "loop" => state.tables = persisted.tables
    /\ x_pc \in {"crashed", "aborted"} =>
          \A i \in DOMAIN x_done :
              x_done[i].outcome = "done" =>
                  persisted.tables[x_done[i].key].register.status = "done"

-----------------------------------------------------------------------------
(* Claims about concurrent sync runs (SpecConc) *)

\* C17 (as stated): when two sync runs on disjoint tables have both
\* finished, the state file holds, for every table of either run, the final
\* outcome the run that processed it has written.
C17_ConcurrentRunsKeepOutcomes ==
    (\A r \in Runs : c_pc[r] = "done") =>
        \A r \in Runs : \A i \in DOMAIN c_log[r] :
            /\ c_log[r][i].key \in DOMAIN persisted.tables
            /\ persisted.tables[c_log[r][i].key].sync = c_log[r][i].result

-----------------------------------------------------------------------------
(* Claims about failures inside the rewrite (SpecRewrite, SpecSync) *)

\* where rewrite_table_paths stood when it raised: its locals are as the
\* raising statement found them
RaisedAt == IF r_meta = <<>> THEN "getmeta" ELSE LoopPc(r_ml, r_m)

\* this call wrote k, with its source-prefixed URIs rewritten
WrittenRewritten(k) ==
    k \in Range(r_written) /\ FileRewritten(r_before[k], dst[k])

C19_PutFailureRecoveredLocally ==
    r_pc = "raised" => RaisedAt \notin {"lists", "manifests"}

\* rewrite_table_paths raised on the read, the parse or the write of the
\* table's metadata.json
MetaRootFailed ==
    s_pc = "rewrite" /\ r_pc = "raised" /\ RaisedAt \in {"getmeta", "putmeta"}

RewriteErrors(log) == {i \in DOMAIN log : log[i].result.rewrite_error # <<>>}

\* C20: when the rewrite of a table fails on its metadata.json, the step
\* that follows (unless the process is killed first) saves the table's record
\* with status synced and a rewrite error, counts the table as synced, leaves
\* every object of the destination in place and goes on to the next table,
\* or to the summary after the last one; every record saved with a rewrite
\* error is a synced one.
C20_MetadataFailureKeepsSynced ==
    /\ [](\A i \in RewriteErrors(g_log) :
             /\ g_log[i].result.status = "synced"
             /\ g_log[i].result.rewrite_count = <<>>)
    /\ [][(MetaRootFailed /\ s_pc' # "crashed") =>
             /\ CurKey \in DOMAIN persisted'.tables
             /\ persisted'.tables[CurKey].sync.status = "synced"
             /\ persisted'.tables[CurKey].sync.rewrite_error # <<>>
             /\ s_synced' = s_synced + 1 /\ s_failed' = s_failed
             /\ \A k \in DOMAIN r_before : k \in DOMAIN dst' /\ k \in DOMAIN dst
             /\ s_i' = s_i + 1
             /\ s_pc' = IF s_i < Len(s_actionable) THEN "loop" ELSE "done"
             /\ s_pc' = "done" => s_end' = "summary"]_vars

\* the run is at its second table after the write of the first table's
\* metadata.json failed: the table's manifest list and manifest were
\* rewritten, its metadata.json was not, and its saved record is synced with
\* a rewrite error
C20_Witness ==
    /\ s_pc = "loop" /\ s_i = 2 /\ Len(g_log) = 1
    /\ 1 \in RewriteErrors(g_log)
    /\ persisted.tables[g_log[1].key].sync.status = "synced"
    /\ persisted.tables[g_log[1].key].sync.rewrite_error # <<>>
    /\ s_synced = 1 /\ s_failed = 0
    /\ LET t == g_log[1].t
       IN  /\ DOMAIN SyncTree(t) \subseteq DOMAIN dst
           /\ dst[MetaKey(t)] = src[MetaKey(t)]
           /\ RefLists(src, t) # {}
           /\ \A l \in RefLists(src, t) :
                 /\ dst[l] # src[l]
                 /\ ManifestsOf(src, l) # {}
                 /\ \A m \in ManifestsOf(src, l) : dst[m] # src[m]

-----------------------------------------------------------------------------
(* Claims about discovery (SpecDisc) *)

\* the tables a failing catalog call concerns
Affected ==
    {x \in CatalogTables(d_catalog) :
        d_bad.namespaces \/ x[1] \in d_bad.listing \/ x \in d_bad.loading}

\* C21 (as stated): an error of the catalog while listing namespaces, listing
\* the tables of a namespace or loading a table makes sync skip the affected
\* tables only, with a note: the run does not abort, and the tables it goes
\* on to process are exactly the unaffected ones.
C21_DiscoveryErrorSkipsTable ==
    /\ d_pc # "aborted"
    /\ d_pc = "selected" =>
          /\ Range(d_actionable) = CatalogTables(d_catalog) \ Affected
          /\ d_noted = Affected

-----------------------------------------------------------------------------
(* Claims about _replace_prefix (SpecPref) *)

\* C22 (as stated): for all strings value, src and dst, a second application
\* of replacePrefix with the same src and dst changes nothing.
C22_ReplacePrefixIdempotent ==
    q_pc = "twice" => q_twice = q_once

\* src and dst are equal, or neither is a prefix of the other
Unrelated(a, b) == a = b \/ (~StartsWith(a, b) /\ ~StartsWith(b, a))

\* C22 (amended): when src and dst are equal or neither is a prefix of the
\* other, the first application puts dst in the place of a leading src and
\* leaves any other value alone, and a second application with the same src
\* and dst changes nothing.
C22_IdempotentOnUnrelatedPrefixes ==
    (q_pc = "twice" /\ Unrelated(q_src, q_dst)) =>
        /\ q_twice = q_once
        /\ IF StartsWith(q_value, q_src)
           THEN /\ StartsWith(q_once, q_dst)
                /\ Len(q_once) = Len(q_value) - Len(q_src) + Len(q_dst)
           ELSE q_once = q_value

\* a value under src was moved under a different dst of another length, and
\* the second application left it there
C22_Witness ==
    /\ q_pc = "twice" /\ Unrelated(q_src, q_dst) /\ q_src # q_dst
    /\ Len(q_src) # Len(q_dst) /\ q_src # <<>>
    /\ StartsWith(q_value, q_src) /\ Len(q_value) > Len(q_src)
    /\ q_once # q_value /\ q_twice = q_once

-----------------------------------------------------------------------------
(* Claims about re-running the rewrite (SpecRerun) *)

\* what one rewrite that meets no failure leaves of a store: metadata.json,
\* the manifest lists it names and their manifests rewritten, as far as they
\* are in the store
FullRewrite(store, t) ==
    IF MetaKey(t) \notin DOMAIN store THEN store
    ELSE [k \in DOMAIN store |->
            IF k = MetaKey(t)
            THEN rewrite_metadata_json(store[k], source_prefix, target_prefix)
            ELSE IF k \in RefLists(store, t)
            THEN [store[k] EXCEPT !.paths =
                     rewrite_manifest_list(@, source_prefix, target_prefix)]
            ELSE IF k \in RefManifests(store, t)
            THEN [store[k] EXCEPT !.files =
                     rewrite_manifest(@, source_prefix, target_prefix)]
            ELSE store[k]]

\* the second call met no failure
RerunClean == rr_run = 1 /\ faults = rr_faults

\* C23: a second call of rewrite_table_paths with the same prefixes, on what
\* a first call left (returned, or raised part-way), that itself meets no
\* failure ends with metadata.json, every manifest list and every manifest
\* as one rewrite without failure produces them; on a table the first call
\* rewrote in full, the second call changes nothing.
C23_RerunCompletesRewrite ==
    /\ (RerunClean /\ r_pc = "returned") =>
          dst = FullRewrite(rr_init, r_tbl)
    /\ (rr_run = 1 /\ r_before = FullRewrite(rr_init, r_tbl)) =>
          dst = r_before
    /\ rr_run = 1 => r_pc # "raised" \/ faults < rr_faults

\* the first call raised after it had rewritten some files but not
\* metadata.json; the second call rewrote the rest
C23_Witness ==
    /\ RerunClean /\ r_pc = "returned"
    /\ r_before # rr_init
    /\ r_before[MetaKey(r_tbl)] = rr_init[MetaKey(r_tbl)]
    /\ dst # r_before
    /\ dst = FullRewrite(rr_init, r_tbl)
    /\ \E l \in RefLists(rr_init, r_tbl) : r_before[l] # rr_init[l]

-----------------------------------------------------------------------------
(* Claims about one table through sync and rewrite (SpecSync) *)

DstUri(k) == <<"s3://", DstBucket, k>>

\* C24: for a source table of one metadata.json, one manifest list naming
\* one manifest, and one manifest naming one data file under the source
\* prefix: when sync has copied the table and the rewrite has returned
\* without skipping a file, the destination holds the three files at the
\* keys they have in the source, metadata.json has its location and its
\* manifest-list URI under the destination prefix, the manifest list's
\* manifest_path is under the destination prefix, and the manifest's
\* file_path is the data file's URI under the destination prefix.
C24_ExampleTableMigrated ==
    (/\ s_pc = "rewrite" /\ r_pc = "returned" /\ r_skipped = {}
     /\ DOMAIN SyncTree(r_tbl) \subseteq DOMAIN src) =>
        LET t == r_tbl
            meta == MetaKey(t)
            list == ListKey(t, 1)
            manifest == OwnManifestKey(t, 1, 1)
        IN  /\ {meta, list, manifest} \subseteq DOMAIN dst
            /\ dst[meta].kind = "metadata"
            /\ dst[meta].location = DstUri(<<t, 0>>)
            /\ dst[meta].snapshots = <<DstUri(list)>>
            /\ dst[list].kind = "mlist"
            /\ dst[list].paths = <<DstUri(manifest)>>
            /\ dst[manifest].kind = "manifest"
            /\ dst[manifest].files[1].file_path = DstUri(DataKey(t, 1))

\* the rewrite of a copied table has returned, having written the manifest
\* list, the manifest and metadata.json
C24_Witness ==
    /\ s_pc = "rewrite" /\ r_pc = "returned" /\ r_skipped = {}
    /\ DOMAIN SyncTree(r_tbl) \subseteq DOMAIN src
    /\ r_count = 3
    /\ r_written = <<ListKey(r_tbl, 1), OwnManifestKey(r_tbl, 1, 1),
                     MetaKey(r_tbl)>>
    /\ g_cur.xfer # {}
    /\ src[MetaKey(r_tbl)].location = SrcUri(<<r_tbl, 0>>)

\* the source store lists nothing under the table's prefix
EmptySource(t) == list_objects(src, t) = <<>>

\* C25: when the source listing under a table's prefix is empty, _sync_table
\* returns synced with object_count 0 and total_bytes 0 and no error, and
\* it neither lists the destination nor writes to it for that table.
C25_EmptySourceSyncedTrivially ==
    /\ \A c \in g_calls : c[2] \in {"listdst", "put"} => ~EmptySource(c[1])
    /\ (s_pc \in {"result", "rewrite"} /\ EmptySource(CurTable)) =>
          /\ s_result.status = "synced"
          /\ s_result.object_count = <<0>> /\ s_result.total_bytes = <<0>>
          /\ s_result.error = <<>>
    /\ \A i \in DOMAIN g_log :
          EmptySource(g_log[i].t) =>
             /\ g_log[i].result.status = "synced"
             /\ g_log[i].result.object_count = <<0>>
             /\ g_log[i].result.total_bytes = <<0>>
             /\ g_log[i].xfer = {}

\* _sync_table has returned for a table whose source listing is empty, after
\* a table with objects was copied in the same run
C25_Witness ==
    /\ s_pc = "result" /\ EmptySource(CurTable)
    /\ s_result.status = "synced" /\ s_result.object_count = <<0>>
    /\ <<CurTable, "listsrc">> \in g_calls
    /\ \E c \in g_calls : c[2] = "put" /\ c[1] # CurTable

\* what the state file recorded for discovered table n when the run began
StartStatus(n) == StatusOf(g_start.persisted.tables, KeyOf(n))

Eligible(n) ==
    s_flags.force \/ StartStatus(n) \in {"pending", "in_progress", "failed"}

Discovered == 1..Len(tables)

\* C26: a run processes a discovered table if and only if force is set or
\* the table's recorded sync status is pending, in_progress or failed (no
\* record counting as pending); a table skipped because it is synced keeps
\* its record as it was and no store operation is issued for it.
C26_ProcessedIffNotSyncedOrForced ==
    /\ s_pc \in {"loop", "done"} \cup Window =>
          Range(s_actionable) = {n \in Discovered : Eligible(n)}
    /\ (s_pc = "done" /\ s_end \in {"summary", "dry"}) =>
          g_ops = {n \in Discovered : Eligible(n)}
    /\ s_pc # "idle" =>
          \A n \in Discovered :
             ~Eligible(n) =>
                /\ StartStatus(n) = "synced"
                /\ KeyOf(n) \in DOMAIN persisted.tables
                /\ persisted.tables[KeyOf(n)] =
                      g_start.persisted.tables[KeyOf(n)]
                /\ n \notin g_ops
                /\ \A c \in g_calls : c[1] # n

\* a run without force has ended with its summary: it skipped a table
\* recorded as synced and processed one recorded as failed
C26_Witness ==
    /\ s_pc = "done" /\ s_end = "summary" /\ ~s_flags.force
    /\ \E n, k \in Discovered :
          /\ ~Eligible(n)
          /\ StartStatus(k) = "failed"
          /\ k \in g_ops /\ \E c \in g_calls : c[1] = k
          /\ \E i \in DOMAIN g_log : g_log[i].t = k

-----------------------------------------------------------------------------
(* Claims about syncing a table again (SpecGrow) *)

\* the source keys of table n that were not at the destination with equal
\* size when the run began
NewOrChangedAtStart(n) ==
    {k \in KeyNumbers(g_start.src, n) :
        \/ <<n, k>> \notin DOMAIN g_start.dst
        \/ Size(g_start.dst[<<n, k>>]) # Size(g_start.src[<<n, k>>])}

\* the keys of table n the run has transferred
TransferredOf(n) ==
    UNION {g_log[i].xfer : i \in {j \in DOMAIN g_log : g_log[j].t = n}}

\* C27 (as stated): after a table was synced by one run and objects were
\* then added under its prefix in the source store, a later run without
\* force transfers exactly the objects that are new or size-changed
\* relative to the destination.
C27_NewObjectsTransferred ==
    (/\ s_pc = "done" /\ s_end \in {"summary", "nothing"}
     /\ ~s_flags.force /\ ~s_flags.dry_run) =>
        \A n \in Discovered :
            (/\ StartStatus(n) = "synced"
             /\ AddedKey(n) \in DOMAIN g_start.src
             /\ AddedKey(n) \notin DOMAIN g_start.dst) =>
                TransferredOf(n) = NewOrChangedAtStart(n)

-----------------------------------------------------------------------------
(* Claims about the flags of sync (SpecSync) *)

\* C28: a dry run changes nothing: with --dry-run, whatever the other
\* flags, the run writes nothing to the destination store, builds no
\* destination session, lists no destination, runs no rewrite, and leaves
\* the state file as it was; the only call it issues is the listing of the
\* source.
C28_DryRunChangesNothing ==
    (s_pc # "idle" /\ s_flags.dry_run) =>
        /\ dst = g_start.dst
        /\ persisted = g_start.persisted
        /\ \A c \in g_calls : c[2] = "listsrc"
        /\ r_pc = "off" /\ r_written = <<>>
        /\ s_pc \notin Window
        /\ g_log = <<>>

\* a dry run with --force over copied and recorded tables has listed the source
\* of every table and ended
C28_Witness ==
    /\ s_pc = "done" /\ s_end = "dry"
    /\ s_flags.dry_run /\ s_flags.force /\ ~s_flags.skip_rewrite
    /\ Len(s_actionable) = NTables
    /\ g_calls = {<<n, "listsrc">> : n \in 1..NTables}
    /\ dst # <<>> /\ persisted.tables # <<>>
    /\ \E k \in DOMAIN state.tables : state.tables[k] # persisted.tables[k]

-----------------------------------------------------------------------------
(* Claims about the table records of the state file (SpecState) *)

RecordKeys(doc) == IF "tables" \in DOMAIN doc THEN DOMAIN doc.tables ELSE {}

\* the clear command has reset the records
ClearFinished ==
    /\ mode = "orch" /\ o_start # <<>> /\ ~o_flags.dry_run
    /\ RecordKeys(o_start.persisted) # {}
    /\ \/ o_cmd = "clear" /\ o_pc = "done"
       \/ o_cmd = "cleanup" /\ o_pc \in {"infra", "aborted"} /\
          persisted # o_start.persisted

\* C29: sync, register and clear keep every table key of the state file;
\* clear resets every record to sync pending and register pending, with its
\* namespace and table kept, only after the destination objects of every
\* recorded table are deleted, so every table is selected by the next sync;
\* a cleanup that completes leaves the empty document, and nothing else
\* removes a record.
C29_OnlyCleanupRemovesRecords ==
    /\ (mode = "sync" /\ g_start # <<>>) =>
          RecordKeys(g_start.persisted) \subseteq RecordKeys(persisted)
    /\ (mode = "register" /\ x_start # <<>>) =>
          RecordKeys(x_start) \subseteq RecordKeys(persisted)
    /\ (mode = "orch" /\ o_start # <<>>) =>
          \/ RecordKeys(persisted) = RecordKeys(o_start.persisted)
          \/ /\ o_cmd = "cleanup" /\ o_pc = "done" /\ ~o_flags.dry_run
             /\ persisted = EmptyDocument
    /\ (mode = "orch" /\ o_start # <<>> /\ persisted # o_start.persisted) =>
          \A t \in DOMAIN tables :
             KeyOf(t) \in RecordKeys(o_start.persisted) =>
                \A k \in DOMAIN dst : k[1] # t
    /\ ClearFinished =>
          /\ \A k \in DOMAIN persisted.tables :
                /\ persisted.tables[k].sync.status = "pending"
                /\ persisted.tables[k].register.status = "pending"
                /\ persisted.tables[k].namespace =
                      o_start.persisted.tables[k].namespace
                /\ persisted.tables[k].table = o_start.persisted.tables[k].table
          /\ Range(Actionable(Len(tables), persisted.tables, FALSE)) =
                DOMAIN tables
    /\ (mode = "orch" /\ o_cmd = "cleanup" /\ o_pc = "done"
        /\ ~o_flags.dry_run /\ "aws" \in DOMAIN o_start.persisted) =>
          persisted = EmptyDocument

\* clear has ended on a state file with a synced and registered table whose
\* objects were at the destination: the records are pending, the objects gone
C29_Witness ==
    /\ mode = "orch" /\ o_cmd = "clear" /\ o_pc = "done" /\ ~o_flags.dry_run
    /\ RecordKeys(persisted) = RecordKeys(o_start.persisted)
    /\ \E k \in RecordKeys(persisted) :
          /\ o_start.persisted.tables[k].sync.status = "synced"
          /\ o_start.persisted.tables[k].register.status = "done"
          /\ persisted.tables[k].sync.status = "pending"
          /\ persisted.tables[k].register.status = "pending"
    /\ o_start.dst # <<>> /\ dst = <<>>

-----------------------------------------------------------------------------
(* Claims about what a sync run writes to the state file (SpecResync) *)

\* the state keys of the tables the run processes
ProcessedKeys == {KeyOf(t) : t \in {n \in Discovered : Eligible(n)}}

\* C30: across a sync run the state file keeps its sections other than
\* tables as they were; an existing record keeps its namespace, table and
\* register sub-record, and is unchanged altogether when its table is not
\* processed in the run; the only records added are those of processed
\* tables, created with register pending.
C30_SyncWritesOnlySyncSubRecords ==
    (mode = "sync" /\ g_start # <<>>) =>
       LET old == g_start.persisted
       IN  /\ DOMAIN persisted = DOMAIN old
           /\ persisted.aws = old.aws
           /\ \A k \in DOMAIN old.tables :
                 /\ k \in DOMAIN persisted.tables
                 /\ DOMAIN persisted.tables[k] = DOMAIN old.tables[k]
                 /\ persisted.tables[k].namespace = old.tables[k].namespace
                 /\ persisted.tables[k].table = old.tables[k].table
                 /\ persisted.tables[k].register = old.tables[k].register
                 /\ k \notin ProcessedKeys =>
                       persisted.tables[k] = old.tables[k]
           /\ \A k \in DOMAIN persisted.tables \ DOMAIN old.tables :
                 /\ k \in ProcessedKeys
                 /\ persisted.tables[k].register = [status |-> "pending"]

\* a run has ended that re-synced a table whose record was registered under
\* another spelling of its namespace, and created the record of a new table
C30_Witness ==
    /\ mode = "sync" /\ g_start # <<>> /\ s_pc = "done"
    /\ \E k \in DOMAIN g_start.persisted.tables :
          /\ g_start.persisted.tables[k].register.status = "done"
          /\ g_start.persisted.tables[k].namespace # tables[1].namespace
          /\ persisted.tables[k].sync # g_start.persisted.tables[k].sync
          /\ persisted.tables[k].sync.status = "synced"
    /\ DOMAIN persisted.tables # DOMAIN g_start.persisted.tables

-----------------------------------------------------------------------------
(* Claims about the transfer loop of _sync_table (SpecSync) *)

Ascending(seq) == \A i, j \in DOMAIN seq : i < j => seq[i] < seq[j]

\* _sync_table is between its plan and its return for the current table
InSyncTable == mode = "sync" /\ s_pc \in {"transfer", "result"}

\* C31: the plan is in ascending key order and its keys are attempted one
\* at a time in that order; when a transfer raises, the outcome is failed,
\* the error names the key, the keys attempted are exactly the plan up to
\* that key, object_count is the number of keys before it, all of them at
\* the destination, and total_bytes is the sum of their sizes.
C31_StopsAtFirstFailingKey ==
    InSyncTable =>
       LET plan == g_cur.plan
           order == g_cur.order
       IN  /\ Ascending(plan)
           /\ Len(order) <= Len(plan)
           /\ order = SubSeq(plan, 1, Len(order))
           /\ (s_pc = "result" /\ s_result.status = "failed") =>
                 LET n == Len(order) - 1
                 IN  /\ order # <<>>
                     /\ s_result.error[1] = order[Len(order)]
                     /\ s_result.object_count = <<n>>
                     /\ \A i \in 1..n :
                           /\ <<CurTable, plan[i]>> \in DOMAIN dst
                           /\ dst[<<CurTable, plan[i]>>] =
                                 src[<<CurTable, plan[i]>>]
                     /\ s_result.total_bytes =
                           <<SumSeq([i \in 1..n |->
                                       Size(src[<<CurTable, plan[i]>>])])>>

\* a transfer raised after at least one key was copied and with keys of the
\* plan still to come
C31_Witness ==
    /\ InSyncTable /\ s_pc = "result" /\ s_result.status = "failed"
    /\ Len(g_cur.order) >= 2
    /\ Len(g_cur.plan) > Len(g_cur.order)

-----------------------------------------------------------------------------
(* Claims about when a sync run calls rewrite_table_paths (SpecSync) *)

Rewritten(t) == <<t, "rewrite">> \in g_calls

\* C32: rewrite_table_paths runs for a table only when _sync_table has
\* returned synced for it in the same run, with every key of its plan
\* transferred, and only when neither --skip-rewrite nor --dry-run is set;
\* it is not called for a table whose outcome is failed.
C32_RewriteOnlyAfterSynced ==
    mode = "sync" =>
       /\ r_pc # "off" =>
             /\ s_pc = "rewrite" /\ r_tbl = CurTable
             /\ s_result.status = "synced"
             /\ s_plan = <<>> /\ g_cur.order = g_cur.plan
             /\ g_cur.failed = <<>>
       /\ \A t \in DOMAIN tables :
             Rewritten(t) =>
                /\ ~s_flags.skip_rewrite /\ ~s_flags.dry_run
                /\ \/ \E i \in DOMAIN g_log :
                         /\ g_log[i].t = t
                         /\ g_log[i].result.status = "synced"
                   \/ s_pc = "rewrite" /\ CurTable = t
                   \/ s_pc = "crashed" /\ g_crash.key = <<KeyOf(t)>>
       /\ \A i \in DOMAIN g_log :
             g_log[i].result.status = "failed" =>
                /\ ~Rewritten(g_log[i].t)
                /\ g_log[i].result.rewrite_count = <<>>
                /\ g_log[i].result.rewrite_error = <<>>

\* the rewrite is running for a table whose keys were all transferred, in a
\* run in which an earlier table failed and was not rewritten
C32_Witness ==
    /\ mode = "sync" /\ s_pc = "rewrite" /\ r_pc # "off"
    /\ g_cur.plan # <<>> /\ g_cur.order = g_cur.plan
    /\ \E i \in DOMAIN g_log :
          g_log[i].result.status = "failed" /\ ~Rewritten(g_log[i].t)

-----------------------------------------------------------------------------
(* Claims about the order of the writes of rewrite_table_paths (SpecRewrite) *)

\* metadata.json is written once, as the last write of the call
MetaWrittenLast ==
    /\ r_written[Len(r_written)] = MetaKey(r_tbl)
    /\ \A i \in 1..(Len(r_written) - 1) : r_written[i] # MetaKey(r_tbl)

\* a call that raised has not written metadata.json
RaiseLeavesMeta ==
    r_pc = "raised" =>
       /\ ~MetaFinal
       /\ MetaKey(r_tbl) \in DOMAIN r_before =>
             dst[MetaKey(r_tbl)] = r_before[MetaKey(r_tbl)]

\* C33 (as stated): the write of metadata.json is the last write of the
\* call, issued only after every manifest list the snapshots refer to, and
\* every manifest those manifest lists refer to, was written back or had
\* its read fail with a warning; a call that raised has not written it.
C33_MetadataWrittenLast ==
    /\ MetaFinal =>
          /\ MetaWrittenLast
          /\ \A l \in RefLists(r_before, r_tbl) :
                l \in Range(r_written) \/ <<l>> \in r_skipped
          /\ \A m \in RefManifests(r_before, r_tbl) :
                m \in Range(r_written) \/ <<m>> \in r_skipped
    /\ RaiseLeavesMeta

\* C33 (amended): as above, for the manifests of the manifest lists that
\* were read; the manifests of a manifest list whose read failed are not
\* visited at all.
C33_MetadataWrittenAfterVisitedFiles ==
    /\ MetaFinal =>
          /\ MetaWrittenLast
          /\ \A l \in RefLists(r_before, r_tbl) :
                /\ l \in Range(r_written) \/ <<l>> \in r_skipped
                /\ l \in Range(r_written) =>
                      \A m \in ManifestsOf(r_before, l) :
                         m \in Range(r_written) \/ <<m>> \in r_skipped
          /\ \A m \in RefManifests(r_before, r_tbl) :
                m \in Range(r_written) \/ Skipped(m)
    /\ RaiseLeavesMeta

\* metadata.json was written after a manifest list and a manifest were
\* written and the read of another manifest failed
C33_Witness ==
    /\ mode = "rewrite" /\ r_pc = "returned" /\ MetaFinal
    /\ Len(r_written) >= 3
    /\ \E m \in RefManifests(r_before, r_tbl) :
          <<m>> \in r_skipped /\ m \notin Range(r_written)

-----------------------------------------------------------------------------
(* Claims about what the rewriters change in a document (SpecDoc) *)

\* b is a with, at most, its fields named in paths changed, each to the
\* prefix substitution of its value
SameBut(a, b, paths) ==
    /\ DOMAIN b = DOMAIN a
    /\ \A k \in DOMAIN a :
          IF k \in paths
          THEN b[k] = replace_prefix(a[k], source_prefix, target_prefix)
          ELSE b[k] = a[k]

\* the same for two lists of entries, one by one
SameListBut(a, b, paths) ==
    /\ Len(b) = Len(a)
    /\ \A i \in DOMAIN a : SameBut(a[i], b[i], paths)

DataFileFrame(a, b) ==
    IF a = <<>> THEN b = a
    ELSE SameBut(a, b, {"file_path"} \cup
                       (IF "referenced_data_file" \in DOMAIN a
                           /\ a["referenced_data_file"] # <<>>
                        THEN {"referenced_data_file"} ELSE {}))

ManifestFrame(a, b) ==
    /\ Len(b) = Len(a)
    /\ \A i \in DOMAIN a :
          /\ DOMAIN b[i] = DOMAIN a[i]
          /\ \A k \in DOMAIN a[i] :
                IF k = "data_file" THEN DataFileFrame(a[i][k], b[i][k])
                ELSE b[i][k] = a[i][k]

MetadataFrame(a, b) ==
    /\ DOMAIN b = DOMAIN a
    /\ \A k \in DOMAIN a :
          IF k = "location"
          THEN b[k] = replace_prefix(a[k], source_prefix, target_prefix)
          ELSE IF k = "snapshots" THEN SameListBut(a[k], b[k], {"manifest-list"})
          ELSE IF k = "metadata-log"
          THEN SameListBut(a[k], b[k], {"metadata-file"})
          ELSE b[k] = a[k]

\* C34: the file written back has the schema, the number and order of
\* records and every field of the file read, except that manifest_path,
\* data_file.file_path, a non-empty data_file.referenced_data_file,
\* location, snapshots[].manifest-list and metadata-log[].metadata-file hold
\* the prefix substitution of their values.
C34_OnlyPathValuesChange ==
    (mode = "doc" /\ w_pc = "written") =>
       /\ w_key = "mlist" =>
             /\ w_out.schema = w_in.schema
             /\ SameListBut(w_in.records, w_out.records, {"manifest_path"})
       /\ w_key = "manifest" =>
             /\ w_out.schema = w_in.schema
             /\ ManifestFrame(w_in.records, w_out.records)
       /\ w_key = "metadata" => MetadataFrame(w_in.data, w_out.data)

\* a manifest was written back with a file_path moved to the destination
\* prefix, beside a record count, and an empty referenced_data_file kept
C34_Witness ==
    /\ mode = "doc" /\ w_pc = "written" /\ w_key = "manifest"
    /\ \E i, j \in DOMAIN w_in.records :
          /\ "data_file" \in DOMAIN w_in.records[i]
          /\ w_in.records[i]["data_file"] # <<>>
          /\ "file_path" \in DOMAIN w_in.records[i]["data_file"]
          /\ w_in.records[i]["data_file"]["file_path"] = SrcUri(<<1, 1>>)
          /\ StartsWith(w_out.records[i]["data_file"]["file_path"],
                        target_prefix)
          /\ w_out.records[i]["data_file"]["record_count"] = 1
          /\ "data_file" \in DOMAIN w_in.records[j]
          /\ w_in.records[j]["data_file"] # <<>>
          /\ "referenced_data_file" \in DOMAIN w_in.records[j]["data_file"]
          /\ w_out.records[j]["data_file"]["referenced_data_file"] = <<>>

-----------------------------------------------------------------------------
(* Claims about the value _replace_prefix returns (SpecPref) *)

\* res is dst followed by value without its first Len(src) characters
Substituted(res, value, src_, dst_) ==
    /\ Len(res) = Len(dst_) + Len(value) - Len(src_)
    /\ \A i \in 1..Len(dst_) : res[i] = dst_[i]
    /\ \A i \in 1..(Len(value) - Len(src_)) :
          res[Len(dst_) + i] = value[Len(src_) + i]

Called == mode = "pref" /\ q_pc \in {"once", "twice"}

\* C35 (as stated): for all strings value, src and dst, the empty string
\* included, the result is dst followed by value without its first
\* len(src) characters when value starts with src, and value otherwise.
C35_ReplacePrefixRule ==
    Called =>
       IF StartsWith(q_value, q_src)
       THEN Substituted(q_once, q_value, q_src, q_dst)
       ELSE q_once = q_value

\* C35 (amended): the rule holds for every non-empty value; the empty value
\* is returned as it is, also when src is empty.
C35_ReplacePrefixRuleNonEmpty ==
    Called =>
       IF q_value # <<>> /\ StartsWith(q_value, q_src)
       THEN Substituted(q_once, q_value, q_src, q_dst)
       ELSE q_once = q_value

\* a value longer than the non-empty prefix it starts with was given
\* another non-empty prefix
C35_Witness ==
    /\ Called
    /\ q_src # <<>> /\ q_dst # <<>> /\ q_dst # q_src
    /\ StartsWith(q_value, q_src) /\ Len(q_value) > Len(q_src)
    /\ q_once # q_value

-----------------------------------------------------------------------------
(* Claims about what _sync_table does to the destination (SpecSync) *)

\* the destination keys whose object is not the one held when the call began
Touched(before, after) ==
    {k \in DOMAIN after : k \notin DOMAIN before \/ after[k] # before[k]}

\* C36: during _sync_table and when it returns, synced or failed, every
\* object that was at the destination when it began is still there, every
\* key it has copied is there with the source's content, and the keys it
\* has written are keys of its plan under the table's prefix.
C36_NoDeleteNoRollback ==
    InSyncTable =>
       /\ DOMAIN g_cur.before \subseteq DOMAIN dst
       /\ \A n \in g_cur.xfer :
             /\ <<CurTable, n>> \in DOMAIN dst
             /\ dst[<<CurTable, n>>] = src[<<CurTable, n>>]
       /\ Touched(g_cur.before, dst) \subseteq
             {<<CurTable, n>> : n \in Range(g_cur.plan)}
       /\ \A k \in DOMAIN g_cur.before :
             k[1] # CurTable => dst[k] = g_cur.before[k]

\* the call returned failed after copying a key, over a destination that
\* already held objects of this table and of another one
C36_Witness ==
    /\ InSyncTable /\ s_pc = "result" /\ s_result.status = "failed"
    /\ g_cur.xfer # {}
    /\ \E k1, k2 \in DOMAIN g_cur.before : k1[1] = CurTable /\ k2[1] # CurTable
    /\ Touched(g_cur.before, dst) # {}

-----------------------------------------------------------------------------
(* Claims about the records across sync and register (SpecMigrate) *)

\* C37 (as stated): in every state file a record whose register.status is
\* done has sync.status synced, also after a forced sync of a registered
\* table.
C37_DoneImpliesSynced ==
    \A k \in RecordKeys(persisted) :
       persisted.tables[k].register.status = "done" =>
          persisted.tables[k].sync.status = "synced"

-----------------------------------------------------------------------------
(* Claims about the source bucket (SpecSync) *)

\* C38: no step of a sync run, its transfers and its metadata rewrite
\* included, changes the source store: after any sequence of runs its
\* objects are what they were.
C38_SourceReadOnly == [][src' = src]_vars

\* a run has ended that copied a table's objects and rewrote its metadata
\* at the destination, the source being as it was when the run began
C38_Witness ==
    /\ mode = "sync" /\ s_pc = "done" /\ g_start # <<>>
    /\ src = g_start.src
    /\ \E i \in DOMAIN g_log :
          /\ g_log[i].xfer # {}
          /\ g_log[i].result.rewrite_count # <<>>
          /\ dst[MetaKey(g_log[i].t)] # src[MetaKey(g_log[i].t)]

-----------------------------------------------------------------------------
(* Claims about a table whose metadata rewrite failed (SpecSync) *)

\* the record of table t held a rewrite error when the run began
RewriteErrorAtStart(t) ==
    /\ KeyOf(t) \in DOMAIN g_start.persisted.tables
    /\ g_start.persisted.tables[KeyOf(t)].sync.rewrite_error # <<>>

\* C39: a record with a rewrite error has sync.status synced; a run without
\* --force does not process such a table: the rewrite is not called for
\* it, its record and its destination objects stay as they were.
C39_RewriteNotRetriedWithoutForce ==
    (mode = "sync" /\ g_start # <<>>) =>
       /\ \A k \in DOMAIN persisted.tables :
             persisted.tables[k].sync.rewrite_error # <<>> =>
                persisted.tables[k].sync.status = "synced"
       /\ ~s_flags.force =>
             \A t \in DOMAIN tables :
                RewriteErrorAtStart(t) =>
                   /\ ~Rewritten(t) /\ t \notin g_ops
                   /\ persisted.tables[KeyOf(t)] =
                         g_start.persisted.tables[KeyOf(t)]
                   /\ \A k \in DOMAIN dst \cup DOMAIN g_start.dst :
                         k[1] = t =>
                            /\ k \in DOMAIN dst /\ k \in DOMAIN g_start.dst
                            /\ dst[k] = g_start.dst[k]

\* a run without --force has ended over a table recorded with a rewrite
\* error, whose metadata.json at the destination still names the source
C39_Witness ==
    /\ mode = "sync" /\ g_start # <<>> /\ s_pc = "done"
    /\ ~s_flags.force /\ ~s_flags.dry_run
    /\ \E t \in DOMAIN tables :
          /\ RewriteErrorAtStart(t)
          /\ MetaKey(t) \in DOMAIN dst
          /\ StartsWith(dst[MetaKey(t)].location, source_prefix)

====
